---- MODULE Spec2Model ----
(***************************************************************************)
(* A model of the Messages <-> Responses bridge: the request translator,   *)
(* the request-body adapter, the model-name parser, the streaming          *)
(* converter and the non-stream response translator.                       *)
(*                                                                         *)
(* JavaScript strings are TLA+ strings, read letter by letter with Head,    *)
(* Tail and SubSeq where the code looks inside them.  In the response      *)
(* handling an undefined identifier is the value Undefined and an optional *)
(* number is <<>> or <<n>>; the adapter, which tests typeof, gets values   *)
(* that carry their type.                                                  *)
(* Random identifiers (crypto.randomBytes) are drawn from the counter rng, *)
(* so that every minted identifier is fresh.                               *)
(***************************************************************************)
EXTENDS Integers, Sequences, FiniteSets, TLC

VARIABLES
    \* ---- one request's response handling (part_000) ----
    phase,          \* position of the request handler
    isStream,       \* req.body.stream === true
    messages,       \* req.body.messages, flattened to <<role, block>> pairs
    input,          \* codexBody.input built by the request translator
    toolIdMap,      \* Map client tool id -> call id, in insertion order
    converter,      \* the fields of CodexToAnthropicStreamConverter
    res,            \* the client response: SSE events written, JSON body, ended
    rng,            \* source of crypto.randomBytes values
    twin,           \* a second converter run on the same upstream events
    fed,            \* the upstream events delivered so far, in arrival order
    codexResponse,  \* collectCodexStreamAsResponse: <<>> or <<last response>>
    usageSink,      \* the calls of apiKeyService.recordUsage, in order
    pending,        \* <<>>, or <<what follows the service call awaited>>
    \* ---- calls of adaptCodexRequestBody (codexRequestAdapter.js) ----
    adaptPhase,     \* "call", then "returned", then "again" after a second call
    heap,           \* the objects of the JavaScript heap, by reference 1, 2, ..
    adaptArgs,      \* the arguments: body (a reference, 0 = no object), options
    inputBefore,    \* the fields of the input body when the last call began
    adaptResult,    \* what the last call returned
    firstResult,    \* what the first call returned
    \* ---- calls of parseModelWithReasoning (part_000) ----
    modelName,      \* the argument
    parsed,         \* <<>> before the call, then <<the returned object>>
    \* ---- calls of convertAnthropicRequestToCodex (part_000) ----
    request,        \* the arguments: body and baseModel
    codexRequest,   \* <<>> before the call, then <<the returned object>>
    \* ---- the error-path handlers (part_000) ----
    upstream,       \* the upstream response: status and the body still to arrive
    chunks,         \* the chunks the drain has pushed
    scheduler,      \* the calls made on unifiedOpenAIScheduler, in order
    \* ---- handleAnthropicMessagesToCodex (part_000) ----
    bridge          \* the request's account, listeners, abort handle and posted body

respVars == <<phase, isStream, messages, input, toolIdMap, converter, res, rng,
              twin, fed, codexResponse, usageSink, pending>>

adapterVars == <<adaptPhase, heap, adaptArgs, inputBefore, adaptResult, firstResult>>

parserVars == <<modelName, parsed>>

requestVars == <<request, codexRequest>>

errorVars == <<upstream, chunks, scheduler>>

vars == <<respVars, adapterVars, parserVars, requestVars, errorVars, bridge>>

-----------------------------------------------------------------------------
(* Bounds of the model *)

\* the number of upstream events one request receives
MaxEvents == 3

\* token counts of an upstream usage payload range over 0..MaxTokens
MaxTokens == 2

\* the number of assistant tool_use blocks in a conversation history
MaxBlocks == 2

\* the number of upstream events of a request in SpecUsage and SpecTools
MaxFewEvents == 2

\* the length of the instructions a client sends
MaxTextLen == 2

\* the number of content blocks of a request's messages in SpecRequest
MaxHistory == 3

-----------------------------------------------------------------------------
(* JavaScript values *)

Undefined == "undefined"

\* !v for the identifiers and strings of the model
Falsy(v) == v \in {Undefined, ""}

\* a || b
OrElse(a, b) == IF Falsy(a) THEN b ELSE a

\* (n || 0) for an optional number
OrZero(o) == IF o = <<>> THEN 0 ELSE o[1]

\* crypto.randomBytes(..).toString('hex') behind each prefix
CallId(n) == "call_" \o ToString(n)
TooluId(n) == "toolu_" \o ToString(n)
MsgId(n) == "msg_" \o ToString(n)

-----------------------------------------------------------------------------
(* The tool id Map: a sequence of entries in insertion order *)

MapHas(m, k) == \E i \in 1..Len(m) : m[i].k = k

\* a lookup that finds nothing
nothingMapped(m, k) == Undefined

MapGet(m, k) ==
    IF MapHas(m, k) THEN m[CHOOSE i \in 1..Len(m) : m[i].k = k].v ELSE Undefined

\* a set that keeps the value a key already has
setKeepingFirst(m, k, v) ==
    IF MapHas(m, k) THEN m ELSE Append(m, [k |-> k, v |-> v])

\* Map.prototype.set: an existing key keeps its position
MapSet(m, k, v) ==
    IF MapHas(m, k)
    THEN [i \in 1..Len(m) |-> IF m[i].k = k THEN [k |-> k, v |-> v] ELSE m[i]]
    ELSE Append(m, [k |-> k, v |-> v])

-----------------------------------------------------------------------------
(* Request translation: messages -> input items and toolIdMap *)

NoItem ==
    [type |-> Undefined, role |-> Undefined, text |-> Undefined,
     call_id |-> Undefined, name |-> Undefined, arguments |-> Undefined,
     output |-> Undefined]

generateCodexCallId(n) == CallId(n)

\* one block of one message, acc = [input, toolIdMap, rng]
convertBlock(role, block, acc) ==
    IF role = "user" /\ block.type = "text"
    THEN [acc EXCEPT !.input =
            Append(@, [NoItem EXCEPT !.role = "user", !.text = block.text])]
    ELSE IF role = "user" /\ block.type = "tool_result"
    THEN [acc EXCEPT !.input =
            Append(@, [NoItem EXCEPT
                !.type = "function_call_output",
                !.call_id = OrElse(MapGet(acc.toolIdMap, block.tool_use_id),
                                   block.tool_use_id),
                !.output = block.content])]
    ELSE IF role = "assistant" /\ block.type = "text"
    THEN [acc EXCEPT !.input =
            Append(@, [NoItem EXCEPT !.type = "message", !.role = "assistant",
                                     !.text = block.text])]
    ELSE IF role = "assistant" /\ block.type = "tool_use"
    THEN LET callId == generateCodexCallId(acc.rng)
         IN [input |-> Append(acc.input, [NoItem EXCEPT
                                !.type = "function_call",
                                !.call_id = callId,
                                !.name = block.name,
                                !.arguments = block.input]),
             toolIdMap |-> MapSet(acc.toolIdMap, block.id, callId),
             rng |-> acc.rng + 1]
    ELSE acc

RECURSIVE convertBlocksFrom(_, _, _)
convertBlocksFrom(msgs, i, acc) ==
    IF i > Len(msgs) THEN acc
    ELSE convertBlocksFrom(msgs, i + 1, convertBlock(msgs[i].role, msgs[i].block, acc))

convertMessagesToCodexInput(msgs, n) ==
    convertBlocksFrom(msgs, 1, [input |-> <<>>, toolIdMap |-> <<>>, rng |-> n])

-----------------------------------------------------------------------------
(* The client response *)

NoBlock == [type |-> Undefined, id |-> Undefined, name |-> Undefined]
NoDelta == [type |-> Undefined, text |-> ""]
NoError == [type |-> Undefined, message |-> Undefined]
ZeroUsage ==
    [input_tokens |-> 0, output_tokens |-> 0,
     cache_creation_input_tokens |-> 0, cache_read_input_tokens |-> 0]

\* an SSE event of the Messages dialect; src is the position in fed of the
\* upstream event whose handling wrote it
SseEvent(kind, src) ==
    [event |-> kind, index |-> -1, content_block |-> NoBlock, delta |-> NoDelta,
     stop_reason |-> Undefined, usage |-> ZeroUsage, message_id |-> Undefined,
     error |-> NoError, src |-> src]

\* finals counts the terminal actions performed: res.end() and res.json()
FreshRes ==
    [written |-> <<>>, ended |-> FALSE, status |-> 0, body |-> <<>>, finals |-> 0]

\* a writer that puts each event in front of those already written
writeInFront(r, ev) == [r EXCEPT !.written = <<ev>> \o @]

writeAnthropicSseEvent(r, ev) == [r EXCEPT !.written = Append(@, ev)]

-----------------------------------------------------------------------------
(* The streaming converter.  A run is [converter, res, rng].               *)

NewConverter(n) ==
    [currentBlockIndex |-> 0, messageId |-> MsgId(n),
     inputTokens |-> 0, outputTokens |-> 0, cacheReadInputTokens |-> 0,
     messageStartSent |-> FALSE,
     currentFunctionCallId |-> Undefined, currentFunctionCallName |-> Undefined]

NewRun(n) == [converter |-> NewConverter(n), res |-> FreshRes, rng |-> n + 1]

ensureMessageStart(run, src) ==
    IF run.converter.messageStartSent THEN run
    ELSE [run EXCEPT
            !.converter.messageStartSent = TRUE,
            !.res = writeAnthropicSseEvent(@,
                [SseEvent("message_start", src) EXCEPT
                    !.message_id = run.converter.messageId])]

\* a lookup that hands the upstream call id through
passCallIdThrough(map, codexCallId) == codexCallId

\* linear scan of the forward map, first match in insertion order
getAnthropicToolId(map, codexCallId) ==
    IF \E i \in 1..Len(map) : map[i].v = codexCallId
    THEN LET first == CHOOSE i \in 1..Len(map) :
                        /\ map[i].v = codexCallId
                        /\ \A j \in 1..(i - 1) : map[j].v # codexCallId
         IN map[first].k
    ELSE Undefined

handleOutputItemAdded(run, map, event, src) ==
    LET r1 == ensureMessageStart(run, src)
        item == event.item
        found == getAnthropicToolId(map, item.call_id)
        anthropicId == OrElse(found, TooluId(r1.rng))
    IN IF item.type = "function_call"
       THEN [r1 EXCEPT
                !.converter.currentFunctionCallId = item.call_id,
                !.converter.currentFunctionCallName = item.name,
                !.rng = IF Falsy(found) THEN @ + 1 ELSE @,
                !.res = writeAnthropicSseEvent(@,
                    [SseEvent("content_block_start", src) EXCEPT
                        !.index = r1.converter.currentBlockIndex,
                        !.content_block =
                            [type |-> "tool_use", id |-> anthropicId,
                             name |-> OrElse(item.name, "")]])]
       ELSE r1

handleReasoningSummaryPartAdded(run, src) ==
    LET r1 == ensureMessageStart(run, src)
    IN [r1 EXCEPT !.res = writeAnthropicSseEvent(@,
            [SseEvent("content_block_start", src) EXCEPT
                !.index = r1.converter.currentBlockIndex,
                !.content_block = [NoBlock EXCEPT !.type = "thinking"]])]

handleContentPartAdded(run, event, src) ==
    LET r1 == ensureMessageStart(run, src)
    IN IF event.part.type = "output_text"
       THEN [r1 EXCEPT !.res = writeAnthropicSseEvent(@,
                [SseEvent("content_block_start", src) EXCEPT
                    !.index = r1.converter.currentBlockIndex,
                    !.content_block = [NoBlock EXCEPT !.type = "text"]])]
       ELSE r1

\* the three delta handlers differ in the payload type only
handleDelta(run, event, deltaType, src) ==
    LET delta == OrElse(event.delta, "")
    IN IF delta # ""
       THEN [run EXCEPT !.res = writeAnthropicSseEvent(@,
                [SseEvent("content_block_delta", src) EXCEPT
                    !.index = run.converter.currentBlockIndex,
                    !.delta = [type |-> deltaType, text |-> delta]])]
       ELSE run

handleReasoningSummaryTextDelta(run, event, src) ==
    handleDelta(run, event, "thinking_delta", src)

handleOutputTextDelta(run, event, src) ==
    handleDelta(run, event, "text_delta", src)

handleFunctionCallArgumentsDelta(run, event, src) ==
    handleDelta(run, event, "input_json_delta", src)

handleBlockStop(run, src) ==
    [run EXCEPT
        !.res = writeAnthropicSseEvent(@,
            [SseEvent("content_block_stop", src) EXCEPT
                !.index = run.converter.currentBlockIndex]),
        !.converter.currentBlockIndex = @ + 1]

\* an item-done handler that forgets the tool call and closes no block
itemDoneWithoutStop(run, event, src) ==
    IF event.item.type = "function_call"
    THEN [run EXCEPT !.converter.currentFunctionCallId = Undefined,
                     !.converter.currentFunctionCallName = Undefined]
    ELSE run

handleOutputItemDone(run, event, src) ==
    IF event.item.type = "function_call"
    THEN LET r1 == handleBlockStop(run, src)
         IN [r1 EXCEPT !.converter.currentFunctionCallId = Undefined,
                       !.converter.currentFunctionCallName = Undefined]
    ELSE run

\* stop_reason of a completed response, as the streaming converter derives it
streamStopReason(response) ==
    IF \E i \in 1..Len(response.output) : response.output[i].type = "function_call"
    THEN "tool_use"
    ELSE IF /\ response.status = "incomplete"
            /\ response.incomplete_reason = "max_output_tokens"
    THEN "max_tokens"
    ELSE "end_turn"

\* the usage object of message_delta
deltaUsage(c) ==
    [input_tokens |-> c.inputTokens - c.cacheReadInputTokens,
     output_tokens |-> c.outputTokens,
     cache_read_input_tokens |-> c.cacheReadInputTokens,
     cache_creation_input_tokens |-> 0]

handleResponseCompleted(run, event, src) ==
    LET usage == event.response.usage
        c1 == [run.converter EXCEPT
                  !.inputTokens = OrZero(usage.input_tokens),
                  !.outputTokens = OrZero(usage.output_tokens),
                  !.cacheReadInputTokens = OrZero(usage.cached_tokens)]
    IN [run EXCEPT
          !.converter = c1,
          !.res = writeAnthropicSseEvent(
                    writeAnthropicSseEvent(@,
                        [SseEvent("message_delta", src) EXCEPT
                            !.stop_reason = streamStopReason(event.response),
                            !.usage = deltaUsage(c1)]),
                    SseEvent("message_stop", src))]

getUsage(c) ==
    [inputTokens |-> c.inputTokens - c.cacheReadInputTokens,
     outputTokens |-> c.outputTokens,
     cacheReadInputTokens |-> c.cacheReadInputTokens]

processEvent(run, map, event, src) ==
    IF Falsy(event.type) THEN run
    ELSE CASE event.type = "response.created" ->
                ensureMessageStart(run, src)
           [] event.type = "response.output_item.added" ->
                handleOutputItemAdded(run, map, event, src)
           [] event.type = "response.reasoning_summary_part.added" ->
                handleReasoningSummaryPartAdded(run, src)
           [] event.type = "response.reasoning_summary_text.delta" ->
                handleReasoningSummaryTextDelta(run, event, src)
           [] event.type = "response.reasoning_summary_part.done" ->
                handleBlockStop(run, src)
           [] event.type = "response.content_part.added" ->
                handleContentPartAdded(run, event, src)
           [] event.type = "response.output_text.delta" ->
                handleOutputTextDelta(run, event, src)
           [] event.type = "response.content_part.done" ->
                handleBlockStop(run, src)
           [] event.type = "response.function_call_arguments.delta" ->
                handleFunctionCallArgumentsDelta(run, event, src)
           [] event.type = "response.output_item.done" ->
                handleOutputItemDone(run, event, src)
           [] event.type = "response.completed" ->
                handleResponseCompleted(run, event, src)
           [] OTHER -> run

-----------------------------------------------------------------------------
(* The non-stream response translator *)

\* JSON.parse succeeds on these argument strings of the model
IsJson(s) == s \in {"{}", "{\"x\":1}"}

\* parsedInput of a function_call item
parseArguments(arguments) ==
    IF Falsy(arguments) THEN [kind |-> "object", json |-> "{}"]
    ELSE IF IsJson(arguments) THEN [kind |-> "object", json |-> arguments]
    ELSE [kind |-> "raw", json |-> arguments]

NoInput == [kind |-> Undefined, json |-> Undefined]
NoContent ==
    [type |-> Undefined, text |-> Undefined, id |-> Undefined,
     name |-> Undefined, input |-> NoInput]

\* reverseToolIdMap: for each entry in order, set(codexId, anthropicId)
RECURSIVE reverseEntries(_, _, _)
reverseEntries(map, i, acc) ==
    IF i > Len(map) THEN acc
    ELSE reverseEntries(map, i + 1, MapSet(acc, map[i].v, map[i].k))

reverseToolIdMap(map) == reverseEntries(map, 1, <<>>)

\* summaryParts.map(p => p.text || '').join('')
RECURSIVE joinTexts(_, _)
joinTexts(parts, i) ==
    IF i > Len(parts) THEN ""
    ELSE OrElse(parts[i], "") \o joinTexts(parts, i + 1)

\* the text blocks of a message item, acc is the content so far
RECURSIVE messageParts(_, _, _)
messageParts(parts, i, acc) ==
    IF i > Len(parts) THEN acc
    ELSE messageParts(parts, i + 1,
            IF parts[i].type = "output_text"
            THEN Append(acc, [NoContent EXCEPT !.type = "text",
                                               !.text = OrElse(parts[i].text, "")])
            ELSE acc)

\* one output item, acc = [content, rng]
convertOutputItem(item, reverse, acc) ==
    IF item.type = "reasoning"
    THEN LET thinkingText == joinTexts(item.summary, 1)
         IN IF thinkingText # ""
            THEN [acc EXCEPT !.content =
                    Append(@, [NoContent EXCEPT !.type = "thinking",
                                                !.text = thinkingText])]
            ELSE acc
    ELSE IF item.type = "message"
    THEN [acc EXCEPT !.content = messageParts(item.content, 1, @)]
    ELSE IF item.type = "function_call"
    THEN LET found == MapGet(reverse, item.call_id)
         IN [content |-> Append(acc.content,
                [NoContent EXCEPT !.type = "tool_use",
                                  !.id = OrElse(found, TooluId(acc.rng)),
                                  !.name = item.name,
                                  !.input = parseArguments(item.arguments)]),
             rng |-> IF Falsy(found) THEN acc.rng + 1 ELSE acc.rng]
    ELSE acc

RECURSIVE convertOutputFrom(_, _, _, _)
convertOutputFrom(output, i, reverse, acc) ==
    IF i > Len(output) THEN acc
    ELSE convertOutputFrom(output, i + 1, reverse,
                           convertOutputItem(output[i], reverse, acc))

\* a derivation in which the length limit wins over a tool call
lengthLimitFirst(response, content) ==
    IF /\ response.status = "incomplete"
       /\ response.incomplete_reason = "max_output_tokens"
    THEN "max_tokens"
    ELSE IF \E i \in 1..Len(content) : content[i].type = "tool_use"
    THEN "tool_use"
    ELSE "end_turn"

\* stop_reason as the non-stream translator derives it, from the content built
bodyStopReason(response, content) ==
    IF \E i \in 1..Len(content) : content[i].type = "tool_use"
    THEN "tool_use"
    ELSE IF /\ response.status = "incomplete"
            /\ response.incomplete_reason = "max_output_tokens"
    THEN "max_tokens"
    ELSE "end_turn"

\* a usage object whose input still counts the cached tokens
grossBodyUsage(usage) ==
    [input_tokens |-> OrZero(usage.input_tokens),
     output_tokens |-> OrZero(usage.output_tokens),
     cache_creation_input_tokens |-> 0,
     cache_read_input_tokens |-> OrZero(usage.cached_tokens)]

bodyUsage(usage) ==
    [input_tokens |-> OrZero(usage.input_tokens) - OrZero(usage.cached_tokens),
     output_tokens |-> OrZero(usage.output_tokens),
     cache_creation_input_tokens |-> 0,
     cache_read_input_tokens |-> OrZero(usage.cached_tokens)]

\* returns [body, rng]
convertCodexResponseToAnthropic(response, map, n) ==
    LET built == convertOutputFrom(response.output, 1, reverseToolIdMap(map),
                                   [content |-> <<>>, rng |-> n])
    IN [body |-> [id |-> MsgId(built.rng),
                  type |-> "message",
                  content |-> built.content,
                  stop_reason |-> bodyStopReason(response, built.content),
                  usage |-> bodyUsage(response.usage)],
        rng |-> built.rng + 1]

\* one call of apiKeyService.recordUsage
UsageRecord(inputTokens, outputTokens, cacheRead) ==
    [inputTokens |-> inputTokens, outputTokens |-> outputTokens,
     cacheCreateTokens |-> 0, cacheReadTokens |-> cacheRead]

\* res.headersSent
headersSent(r) == r.status # 0 \/ r.written # <<>> \/ r.ended

\* the answer to a stream that held no response.completed, given unless the
\* headers were sent
respondBadGateway(r) ==
    IF headersSent(r) THEN r
    ELSE [r EXCEPT !.status = 502, !.ended = TRUE, !.finals = @ + 1,
                   !.body = <<[type |-> "api_error"]>>]

\* the end handler of handleStreamResponse: the usage it records
recordStreamUsage(sink, c) ==
    LET usage == getUsage(c)
    IN IF usage.inputTokens > 0 \/ usage.outputTokens > 0
       THEN Append(sink, UsageRecord(usage.inputTokens, usage.outputTokens,
                                     usage.cacheReadInputTokens))
       ELSE sink

\* a collector that keeps the first response.completed it sees
collectFirst(collected, event) ==
    IF event.type = "response.completed" /\ collected = <<>>
    THEN <<event.response>>
    ELSE collected

\* the data handler of collectCodexStreamAsResponse; collected is <<>> (null)
\* or <<the response of the last response.completed>>
collectEvent(collected, event) ==
    IF event.type = "response.completed" THEN <<event.response>> ELSE collected

\* returns [res, usageSink, rng]
handleNonStreamResponse(response, map, n, r, sink) ==
    LET out == convertCodexResponseToAnthropic(response, map, n)
        usage == out.body.usage
    IN [res |-> [r EXCEPT !.status = 200, !.ended = TRUE, !.finals = @ + 1,
                          !.body = <<out.body>>],
        usageSink |->
            IF usage.input_tokens > 0 \/ usage.output_tokens > 0
            THEN Append(sink, UsageRecord(usage.input_tokens, usage.output_tokens,
                                          usage.cache_read_input_tokens))
            ELSE sink,
        rng |-> out.rng]

-----------------------------------------------------------------------------
(* The error-path handlers *)

\* the error object of an upstream error body, and a body holding one
NoUpstreamError == [message |-> Undefined, resets_in_seconds |-> <<>>]
ErrorBody(message, resets) ==
    [error |-> <<[message |-> message, resets_in_seconds |-> resets]>>]

\* the texts JSON.parse accepts, with the value it returns for each
JsonTexts ==
    { <<"{\"error\":{\"message\":\"slow down\",\"resets_in_seconds\":12}}",
        ErrorBody("slow down", <<12>>)>>,
      <<"{\"error\":{\"message\":\"slow down\"}}", ErrorBody("slow down", <<>>)>>,
      <<"{\"error\":{\"resets_in_seconds\":0}}", ErrorBody(Undefined, <<0>>)>>,
      <<"{}", [error |-> <<>>]>> }

\* JSON.parse inside its try: <<the value>>, or <<>> when it throws
parseJson(text) ==
    IF \E t \in JsonTexts : t[1] = text
    THEN <<(CHOOSE t \in JsonTexts : t[1] = text)[2]>>
    ELSE <<>>

\* Buffer.concat(chunks).toString()
RECURSIVE concat(_)
concat(pushed) == IF pushed = <<>> THEN "" ELSE Head(pushed) \o concat(Tail(pushed))

\* errorData?.error, with undefined members when a link is missing
errorOf(errorData) ==
    IF errorData = <<>> \/ errorData[1].error = <<>>
    THEN NoUpstreamError
    ELSE errorData[1].error[1]

\* handleRateLimitError once the drain has settled ("resolved" by end or by the
\* timer, "rejected" by an error of the stream), or at once when upstream.data
\* is no stream; returns [res, scheduler]
handleRateLimitError(settled, up, pushed, stream, r, calls) ==
    LET errorData ==
            IF ~up.readable THEN up.data
            ELSE IF settled = "rejected" THEN <<>>
            ELSE parseJson(concat(pushed))
        found == errorOf(errorData).resets_in_seconds
        resetsInSeconds == IF OrZero(found) # 0 THEN found ELSE <<>>
        anthropicError ==
            [type |-> "rate_limit_error",
             message |-> OrElse(errorOf(errorData).message, "Rate limit reached")]
    IN [scheduler |-> Append(calls, [op |-> "markAccountRateLimited",
                                     resetsAfter |-> resetsInSeconds]),
        res |-> IF headersSent(r) THEN r
                ELSE IF stream
                THEN [writeAnthropicSseEvent(r,
                          [SseEvent("error", 0) EXCEPT !.error = anthropicError])
                        EXCEPT !.ended = TRUE, !.finals = @ + 1]
                ELSE [r EXCEPT !.status = 429, !.ended = TRUE, !.finals = @ + 1,
                               !.body = <<[type |-> "error",
                                           error |-> anthropicError]>>]]

\* a handler that treats the status as a rate limit
unauthorizedAsRateLimit(settled, up, pushed, stream, r, calls, markThrows) ==
    handleRateLimitError(settled, up, pushed, stream, r, calls)

\* handleUnauthorizedError once the drain has settled, or at once when
\* upstream.data is no stream; markThrows: the scheduler call rejects, which the
\* handler catches; returns [res, scheduler]
handleUnauthorizedError(settled, up, pushed, stream, r, calls, markThrows) ==
    LET body == concat(pushed)
        errorData ==
            IF ~up.readable THEN up.data
            ELSE IF settled = "rejected" THEN <<>>
            ELSE IF parseJson(body) # <<>> THEN parseJson(body)
            ELSE <<ErrorBody(OrElse(body, "Unauthorized"), <<>>)>>
        reason == "Codex bridge: " \o ToString(up.status) \o " error"
                  \o (IF Falsy(errorOf(errorData).message) THEN ""
                      ELSE " - " \o errorOf(errorData).message)
        anthropicError ==
            [type |-> "authentication_error",
             message |-> OrElse(errorOf(errorData).message, "Authentication failed")]
    IN [scheduler |-> Append(calls, [op |-> "markAccountUnauthorized",
                                     reason |-> reason, threw |-> markThrows]),
        res |-> IF headersSent(r) THEN r
                ELSE IF stream
                THEN [writeAnthropicSseEvent(r,
                          [SseEvent("error", 0) EXCEPT !.error = anthropicError])
                        EXCEPT !.ended = TRUE, !.finals = @ + 1]
                ELSE [r EXCEPT !.status = up.status, !.ended = TRUE, !.finals = @ + 1,
                               !.body = <<[type |-> "error",
                                           error |-> anthropicError]>>]]

\* the error event written after a message_start
errorAfterMessageStart(up, r) ==
    [writeAnthropicSseEvent(writeAnthropicSseEvent(r, SseEvent("message_start", 0)),
        [SseEvent("error", 0) EXCEPT
            !.error = [type |-> "api_error", message |-> "Upstream Codex API error"]])
     EXCEPT !.ended = TRUE, !.finals = @ + 1]

\* handleStreamResponse for an upstream status other than 200 and 201, once
\* the drain has resolved: one error event, then the end
streamUpstreamError(up, r) ==
    [writeAnthropicSseEvent(r,
        [SseEvent("error", 0) EXCEPT
            !.error = [type |-> "api_error",
                       message |-> "Upstream Codex API error ("
                                   \o ToString(up.status) \o ")"]])
     EXCEPT !.ended = TRUE, !.finals = @ + 1]

\* a JSON answer followed by a second end of the response
jsonThenEnd(up, pushed, r) ==
    [r EXCEPT !.status = up.status, !.ended = TRUE, !.finals = @ + 2,
              !.body = <<[type |-> "api_error", message |-> "Codex API error"]>>]

\* the non-stream answer to an upstream status other than 200 and 201, once
\* the drain has resolved
jsonUpstreamError(up, pushed, r) ==
    LET errorBody == concat(pushed)
        parsedBody == parseJson(errorBody)
        errorMessage ==
            IF parsedBody # <<>>
            THEN OrElse(errorOf(parsedBody).message, "Codex API error")
            ELSE OrElse(errorBody, "Codex API error")
    IN IF headersSent(r) THEN r
       ELSE [r EXCEPT !.status = up.status, !.ended = TRUE, !.finals = @ + 1,
                      !.body = <<[type |-> "api_error", message |-> errorMessage]>>]

\* an error thrown inside the orchestrator's try, as the catch block reads it:
\* name, code, message, and status for error.statusCode || error.response?.status
OtherError(status) ==
    [name |-> "Error", code |-> Undefined, status |-> status, message |-> "failed"]

\* the rejection of axios.post when its signal was aborted
CanceledError == [OtherError(<<>>) EXCEPT !.name = "CanceledError",
                                          !.code = "ERR_CANCELED",
                                          !.message = "canceled"]

\* the rejections of the account services and of the scheduler: any status or
\* none, and any name or code, those the catch block tests for included
ServiceErrors ==
    { OtherError(status) : status \in {<<>>, <<401>>, <<402>>, <<403>>, <<503>>} }
    \cup { [OtherError(<<>>) EXCEPT !.name = "AbortError"],
           [OtherError(<<>>) EXCEPT !.code = "ERR_CANCELED"] }

\* error.name === 'AbortError' || error.code === 'ERR_CANCELED'
isAbort(error) == error.name = "AbortError" \/ error.code = "ERR_CANCELED"

\* error.statusCode || error.response?.status || 500
statusOf(error) == IF error.status = <<>> THEN 500 ELSE error.status[1]

\* the end of the catch block: the JSON error with the error's status if no
\* header was sent, else the end of the response if it can be ended
answerError(error, r, flushed, destroyed) ==
    IF ~(headersSent(r) \/ flushed)
    THEN [r EXCEPT !.status = statusOf(error), !.ended = TRUE, !.finals = @ + 1,
                   !.body = <<[type |-> "error"]>>]
    ELSE IF ~destroyed /\ ~r.ended
    THEN [r EXCEPT !.ended = TRUE, !.finals = @ + 1]
    ELSE r

\* a catch block that knows no abort
catchWithoutAbort(error, accountId, r, flushed, destroyed, calls, markThrows) ==
    IF statusOf(error) \in {401, 402} /\ accountId
    THEN [marking |-> TRUE, res |-> r,
          scheduler |-> Append(calls,
              [op |-> "markAccountUnauthorized",
               reason |-> "Codex bridge error: " \o error.message,
               threw |-> markThrows])]
    ELSE [marking |-> FALSE, scheduler |-> calls,
          res |-> answerError(error, r, flushed, destroyed)]

\* the catch block of handleAnthropicMessagesToCodex up to its answer;
\* destroyed is res.destroyed, accountId is set once an account was selected.
\* An abort is answered at once; for status 401 or 402 of a selected account
\* markAccountUnauthorized is called and awaited (marking), its rejection
\* caught; any other error is answered.  Returns [marking, res, scheduler]
catchError(error, accountId, r, flushed, destroyed, calls, markThrows) ==
    IF isAbort(error)
    THEN [marking |-> FALSE, scheduler |-> calls,
          res |-> IF ~(headersSent(r) \/ flushed) /\ ~destroyed
                  THEN [r EXCEPT !.status = 499, !.ended = TRUE, !.finals = @ + 1]
                  ELSE r]
    ELSE IF statusOf(error) \in {401, 402} /\ accountId
    THEN [marking |-> TRUE, res |-> r,
          scheduler |-> Append(calls,
              [op |-> "markAccountUnauthorized",
               reason |-> "Codex bridge error: " \o error.message,
               threw |-> markThrows])]
    ELSE [marking |-> FALSE, scheduler |-> calls,
          res |-> answerError(error, r, flushed, destroyed)]

-----------------------------------------------------------------------------
(* Upstream payloads *)

NoEventItem == [type |-> Undefined, call_id |-> Undefined, name |-> Undefined]
NoPart == [type |-> Undefined]
NoUsage == [input_tokens |-> <<>>, output_tokens |-> <<>>, cached_tokens |-> <<>>]
NoResponse ==
    [usage |-> NoUsage, status |-> Undefined, incomplete_reason |-> Undefined,
     output |-> <<>>]
NoOutputItem ==
    [type |-> Undefined, call_id |-> Undefined, name |-> Undefined,
     arguments |-> Undefined, summary |-> <<>>, content |-> <<>>]

Event(type) ==
    [type |-> type, item |-> NoEventItem, part |-> NoPart, delta |-> Undefined,
     response |-> NoResponse]

FunctionCallItem(callId, name) ==
    [type |-> "function_call", call_id |-> callId, name |-> name]

FunctionCallOutput(callId, arguments) ==
    [NoOutputItem EXCEPT !.type = "function_call", !.call_id = callId,
                         !.name = "run", !.arguments = arguments]

Usage(inputTokens, outputTokens, cachedTokens) ==
    [input_tokens |-> inputTokens, output_tokens |-> outputTokens,
     cached_tokens |-> cachedTokens]

-----------------------------------------------------------------------------
(* String.prototype functions *)

IsSpace(c) == c \in {" ", "\n", "\t"}

RECURSIVE trimStart(_)
trimStart(s) ==
    IF s = "" THEN s
    ELSE IF IsSpace(Head(s)) THEN trimStart(Tail(s)) ELSE s

RECURSIVE trimEnd(_)
trimEnd(s) ==
    IF s = "" THEN s
    ELSE IF IsSpace(SubSeq(s, Len(s), Len(s)))
         THEN trimEnd(SubSeq(s, 1, Len(s) - 1))
         ELSE s

trim(s) == trimEnd(trimStart(s))

startsWith(s, prefix) ==
    /\ Len(prefix) <= Len(s)
    /\ SubSeq(s, 1, Len(prefix)) = prefix

UpperLetters == "ABCDEFGHIJKLMNOPQRSTUVWXYZ"
LowerLetters == "abcdefghijklmnopqrstuvwxyz"

LowerChar(c) ==
    IF \E i \in 1..Len(UpperLetters) : SubSeq(UpperLetters, i, i) = c
    THEN LET i == CHOOSE j \in 1..Len(UpperLetters) : SubSeq(UpperLetters, j, j) = c
         IN SubSeq(LowerLetters, i, i)
    ELSE c

RECURSIVE toLowerCase(_)
toLowerCase(s) ==
    IF s = "" THEN "" ELSE LowerChar(Head(s)) \o toLowerCase(Tail(s))

\* the position of the first occurrence
firstPosition(s, c) ==
    IF \E i \in 1..Len(s) : SubSeq(s, i, i) = c
    THEN CHOOSE i \in 1..Len(s) :
            /\ SubSeq(s, i, i) = c
            /\ \A j \in 1..(i - 1) : SubSeq(s, j, j) # c
    ELSE 0

\* the largest i with s[i] = c, or 0: lastIndexOf(c) + 1
LastPosition(s, c) ==
    IF \E i \in 1..Len(s) : SubSeq(s, i, i) = c
    THEN CHOOSE i \in 1..Len(s) :
            /\ SubSeq(s, i, i) = c
            /\ \A j \in (i + 1)..Len(s) : SubSeq(s, j, j) # c
    ELSE 0

-----------------------------------------------------------------------------
(* The request-body adapter (src/utils/codexRequestAdapter.js) *)

\* a JavaScript value with its type: a string, or undefined (str = ""), or a
\* number (str = its digits)
Str(s) == [isString |-> TRUE, str |-> s]
Undef == [isString |-> FALSE, str |-> ""]
Num(digits) == [isString |-> FALSE, str |-> digits]

Truthy(v) == v.str # ""

DEFAULT_NON_CODEX_FIELDS_TO_REMOVE ==
    <<"temperature", "top_p", "max_output_tokens", "user", "text_formatting",
      "truncation", "text", "service_tier", "prompt_cache_retention",
      "safety_identifier">>

isNonEmptyString(value) == value.isString /\ trim(value.str) # ""

normalizeInstructionsMode(value) ==
    LET mode == IF value.isString THEN toLowerCase(value.str) ELSE ""
    IN IF mode \in {"prepend", "overwrite", "none"} THEN mode ELSE "overwrite"

normalizeApplyWhen(value) ==
    LET when == IF value.isString THEN toLowerCase(value.str) ELSE ""
    IN IF when = "all" THEN "all" ELSE "non_codex"

\* rawConfig = [enabled, instructions: [mode, applyWhen, text], applyWhen,
\*             stripFields: [enabled, fields]]; enabled is "true", "false" or
\* Undefined, fields is the array (<<>> when absent)
resolveAdapterConfig(rawConfig, defaultInstructionsText) ==
    LET instructionsRaw == rawConfig.instructions
        stripFieldsRaw == rawConfig.stripFields
    IN [enabled |-> rawConfig.enabled # "false",
        instructions |->
            [mode |-> normalizeInstructionsMode(instructionsRaw.mode),
             applyWhen |-> normalizeApplyWhen(
                 IF Truthy(instructionsRaw.applyWhen)
                 THEN instructionsRaw.applyWhen ELSE rawConfig.applyWhen),
             text |-> IF isNonEmptyString(instructionsRaw.text)
                      THEN instructionsRaw.text ELSE defaultInstructionsText],
        stripFields |->
            [enabled |-> stripFieldsRaw.enabled # "false",
             fields |-> IF Len(stripFieldsRaw.fields) > 0
                        THEN stripFieldsRaw.fields
                        ELSE DEFAULT_NON_CODEX_FIELDS_TO_REMOVE]]

\* objects are functions from their own property names to values
HasOwn(obj, field) == field \in DOMAIN obj
Delete(obj, field) == [f \in DOMAIN obj \ {field} |-> obj[f]]
Assign(obj, field, value) ==
    [f \in DOMAIN obj \cup {field} |-> IF f = field THEN value ELSE obj[f]]
Read(obj, field) == IF HasOwn(obj, field) THEN obj[field] ELSE Undef

\* working on the caller's object instead of on a copy
aliasBody(h, body) == [heap |-> h, ref |-> body]

\* const processedBody = { ...body }: a new object; returns [heap, ref]
shallowCopy(h, body) == [heap |-> Append(h, h[body]), ref |-> Len(h) + 1]

\* a strip loop that deletes without recording
RECURSIVE stripUnrecorded(_, _, _, _)
stripUnrecorded(fields, i, processedBody, acc) ==
    IF i > Len(fields) THEN acc
    ELSE stripUnrecorded(fields, i + 1, processedBody,
            [acc EXCEPT !.heap[processedBody] = Delete(@, fields[i])])

\* the strip loop from the i-th configured field on; acc = [heap, strippedFields]
RECURSIVE stripFrom(_, _, _, _)
stripFrom(fields, i, processedBody, acc) ==
    IF i > Len(fields) THEN acc
    ELSE stripFrom(fields, i + 1, processedBody,
            IF HasOwn(acc.heap[processedBody], fields[i])
            THEN [heap |-> [acc.heap EXCEPT ![processedBody] = Delete(@, fields[i])],
                  strippedFields |-> Append(acc.strippedFields, fields[i])]
            ELSE acc)

\* stripping whatever the client is
stripFieldsAnyClient(h, processedBody, isCodexCLI, settings) ==
    IF settings.stripFields.enabled
    THEN stripFrom(settings.stripFields.fields, 1, processedBody,
                   [heap |-> h, strippedFields |-> <<>>])
    ELSE [heap |-> h, strippedFields |-> <<>>]

\* the strip condition and loop
stripFields(h, processedBody, isCodexCLI, settings) ==
    IF ~isCodexCLI /\ settings.stripFields.enabled
    THEN stripFrom(settings.stripFields.fields, 1, processedBody,
                   [heap |-> h, strippedFields |-> <<>>])
    ELSE [heap |-> h, strippedFields |-> <<>>]

\* changes.instructions: null, or the annotation object
NoInstructionChange ==
    [mode |-> "null", alreadyPresent |-> Undefined, clientMissing |-> Undefined,
     fallback |-> Undefined]

InstructionChange(mode) == [NoInstructionChange EXCEPT !.mode = mode]

\* a prepend branch without the alreadyPresent test
prependAlways(text, bodyInstructions) ==
    LET clientInstructions ==
            IF bodyInstructions.isString THEN bodyInstructions.str ELSE ""
    IN IF isNonEmptyString(Str(clientInstructions))
       THEN [set |-> TRUE, value |-> Str(text \o "\n\n" \o clientInstructions),
             change |-> [InstructionChange("prepend") EXCEPT
                            !.alreadyPresent = "false"]]
       ELSE [set |-> TRUE, value |-> Str(text),
             change |-> [InstructionChange("prepend") EXCEPT
                            !.alreadyPresent = "false", !.clientMissing = "true"]]

\* the prepend branch: [set, value, change], value being what is assigned to
\* processedBody.instructions
prependInstructions(text, bodyInstructions) ==
    LET clientInstructions ==
            IF bodyInstructions.isString THEN bodyInstructions.str ELSE ""
        hasClientInstructions == isNonEmptyString(Str(clientInstructions))
        alreadyPresent ==
            \/ startsWith(clientInstructions, text)
            \/ startsWith(trimStart(clientInstructions), text)
    IN IF hasClientInstructions /\ alreadyPresent
       THEN [set |-> TRUE, value |-> bodyInstructions,
             change |-> [InstructionChange("prepend") EXCEPT
                            !.alreadyPresent = "true"]]
       ELSE IF hasClientInstructions
       THEN [set |-> TRUE, value |-> Str(text \o "\n\n" \o clientInstructions),
             change |-> [InstructionChange("prepend") EXCEPT
                            !.alreadyPresent = "false"]]
       ELSE [set |-> TRUE, value |-> Str(text),
             change |-> [InstructionChange("prepend") EXCEPT
                            !.alreadyPresent = "false", !.clientMissing = "true"]]

\* instruction branches in which mode none never sets anything
applyInstructionsStrictNone(settings, isCodexCLI, bodyInstructions) ==
    LET untouched == [set |-> FALSE, value |-> Undef, change |-> NoInstructionChange]
    IN IF /\ settings.instructions.mode # "none"
          /\ isNonEmptyString(settings.instructions.text)
          /\ (settings.instructions.applyWhen = "all" \/ ~isCodexCLI)
       THEN IF settings.instructions.mode = "overwrite"
            THEN [set |-> TRUE, value |-> settings.instructions.text,
                  change |-> InstructionChange("overwrite")]
            ELSE IF settings.instructions.mode = "prepend"
            THEN prependInstructions(settings.instructions.text.str, bodyInstructions)
            ELSE untouched
       ELSE untouched

\* the instruction branches: [set, value, change]
applyInstructions(settings, isCodexCLI, bodyInstructions) ==
    LET scopeAllowsInstructions ==
            settings.instructions.applyWhen = "all" \/ ~isCodexCLI
        hasServerInstructions == isNonEmptyString(settings.instructions.text)
        clientInstructions ==
            IF bodyInstructions.isString THEN bodyInstructions.str ELSE ""
        hasClientInstructions == isNonEmptyString(Str(clientInstructions))
        untouched == [set |-> FALSE, value |-> Undef, change |-> NoInstructionChange]
    IN IF scopeAllowsInstructions /\ hasServerInstructions
       THEN IF settings.instructions.mode = "overwrite"
            THEN [set |-> TRUE, value |-> settings.instructions.text,
                  change |-> InstructionChange("overwrite")]
            ELSE IF settings.instructions.mode = "prepend"
            THEN prependInstructions(settings.instructions.text.str, bodyInstructions)
            ELSE IF settings.instructions.mode = "none" /\ ~hasClientInstructions
            THEN [set |-> TRUE, value |-> settings.instructions.text,
                  change |-> [InstructionChange("none") EXCEPT
                                 !.clientMissing = "true", !.fallback = "true"]]
            ELSE untouched
       ELSE untouched

NoChanges == [strippedFields |-> <<>>, instructions |-> NoInstructionChange]

\* an adapter whose applied looks at the stripped fields only
adaptCountingStripsOnly(h, body, isCodexCLI, adapterConfig, defaultInstructionsText) ==
    LET settings == resolveAdapterConfig(adapterConfig, defaultInstructionsText)
    IN IF body = 0 \/ ~settings.enabled
       THEN [heap |-> h, body |-> body, applied |-> FALSE, changes |-> NoChanges]
       ELSE LET copy == shallowCopy(h, body)
                stripped == stripFields(copy.heap, copy.ref, isCodexCLI, settings)
                instr == applyInstructions(settings, isCodexCLI,
                                           Read(stripped.heap[body], "instructions"))
            IN [heap |-> IF instr.set
                         THEN [stripped.heap EXCEPT ![copy.ref] =
                                   Assign(@, "instructions", instr.value)]
                         ELSE stripped.heap,
                body |-> copy.ref,
                applied |-> Len(stripped.strippedFields) > 0,
                changes |-> [strippedFields |-> stripped.strippedFields,
                             instructions |-> instr.change]]

\* returns [heap, body, applied, changes]; body = 0 stands for a body that is
\* no object
adaptCodexRequestBody(h, body, isCodexCLI, adapterConfig, defaultInstructionsText) ==
    LET settings == resolveAdapterConfig(adapterConfig, defaultInstructionsText)
    IN IF body = 0 \/ ~settings.enabled
       THEN [heap |-> h, body |-> body, applied |-> FALSE, changes |-> NoChanges]
       ELSE LET copy == shallowCopy(h, body)
                processedBody == copy.ref
                stripped == stripFields(copy.heap, processedBody, isCodexCLI, settings)
                instr == applyInstructions(settings, isCodexCLI,
                                           Read(stripped.heap[body], "instructions"))
                h3 == IF instr.set
                      THEN [stripped.heap EXCEPT ![processedBody] =
                                Assign(@, "instructions", instr.value)]
                      ELSE stripped.heap
            IN [heap |-> h3,
                body |-> processedBody,
                applied |-> \/ Len(stripped.strippedFields) > 0
                            \/ instr.change # NoInstructionChange,
                changes |-> [strippedFields |-> stripped.strippedFields,
                             instructions |-> instr.change]]

-----------------------------------------------------------------------------
(* The vendored copy of the adapter (part_001): lines 1-98 are those of     *)
(* codexRequestAdapter.js, the instruction step differs                     *)

\* the prepend branch of the vendored copy: [set, value, change]
prependInstructionsVendored(text, bodyInstructions) ==
    LET clientText == IF bodyInstructions.isString THEN bodyInstructions.str ELSE ""
        alreadyPresent ==
            \/ startsWith(clientText, text)
            \/ startsWith(trimStart(clientText), text)
    IN IF clientText # "" /\ alreadyPresent
       THEN [set |-> TRUE, value |-> bodyInstructions,
             change |-> [InstructionChange("prepend") EXCEPT
                            !.alreadyPresent = "true"]]
       ELSE IF clientText # "" /\ trim(clientText) # ""
       THEN [set |-> TRUE, value |-> Str(text \o "\n\n" \o clientText),
             change |-> [InstructionChange("prepend") EXCEPT
                            !.alreadyPresent = "false"]]
       ELSE [set |-> TRUE, value |-> Str(text),
             change |-> [InstructionChange("prepend") EXCEPT
                            !.alreadyPresent = "false", !.clientMissing = "true"]]

\* a vendored copy that has the fallback of mode none too
vendoredWithFallback(settings, isCodexCLI, bodyInstructions) ==
    applyInstructions(settings, isCodexCLI, bodyInstructions)

\* the instruction branches of the vendored copy: [set, value, change]
applyInstructionsVendored(settings, isCodexCLI, bodyInstructions) ==
    LET shouldApplyInstructions ==
            /\ settings.instructions.mode # "none"
            /\ isNonEmptyString(settings.instructions.text)
            /\ settings.instructions.applyWhen = "all" \/ ~isCodexCLI
    IN IF shouldApplyInstructions /\ settings.instructions.mode = "overwrite"
       THEN [set |-> TRUE, value |-> settings.instructions.text,
             change |-> InstructionChange("overwrite")]
       ELSE IF shouldApplyInstructions /\ settings.instructions.mode = "prepend"
       THEN prependInstructionsVendored(settings.instructions.text.str,
                                        bodyInstructions)
       ELSE [set |-> FALSE, value |-> Undef, change |-> NoInstructionChange]

\* adaptCodexRequestBody of the vendored copy
adaptCodexRequestBodyVendored(h, body, isCodexCLI, adapterConfig, defaultText) ==
    LET settings == resolveAdapterConfig(adapterConfig, defaultText)
    IN IF body = 0 \/ ~settings.enabled
       THEN [heap |-> h, body |-> body, applied |-> FALSE, changes |-> NoChanges]
       ELSE LET copy == shallowCopy(h, body)
                processedBody == copy.ref
                stripped == stripFields(copy.heap, processedBody, isCodexCLI, settings)
                instr == applyInstructionsVendored(settings, isCodexCLI,
                             Read(stripped.heap[body], "instructions"))
                h3 == IF instr.set
                      THEN [stripped.heap EXCEPT ![processedBody] =
                                Assign(@, "instructions", instr.value)]
                      ELSE stripped.heap
            IN [heap |-> h3,
                body |-> processedBody,
                applied |-> \/ Len(stripped.strippedFields) > 0
                            \/ instr.change # NoInstructionChange,
                changes |-> [strippedFields |-> stripped.strippedFields,
                             instructions |-> instr.change]]

-----------------------------------------------------------------------------
(* The model-name parser (part_000) *)

KNOWN_REASONING_EFFORTS == {"low", "medium", "high", "xhigh"}

\* a parser whose actualModel keeps the dash
parseModelKeepingDash(name) ==
    IF name = ""
    THEN [actualModel |-> "", reasoningEffort |-> Undefined]
    ELSE LET lastDash == LastPosition(name, "-") - 1
             suffix == toLowerCase(SubSeq(name, lastDash + 2, Len(name)))
         IN IF lastDash > 0 /\ suffix \in KNOWN_REASONING_EFFORTS
            THEN [actualModel |-> SubSeq(name, 1, lastDash + 1),
                  reasoningEffort |-> suffix]
            ELSE [actualModel |-> name, reasoningEffort |-> Undefined]

\* reasoningEffort null is Undefined
parseModelWithReasoning(name) ==
    IF name = ""
    THEN [actualModel |-> "", reasoningEffort |-> Undefined]
    ELSE LET lastDash == LastPosition(name, "-") - 1
             suffix == toLowerCase(SubSeq(name, lastDash + 2, Len(name)))
         IN IF lastDash <= 0
            THEN [actualModel |-> name, reasoningEffort |-> Undefined]
            ELSE IF suffix \in KNOWN_REASONING_EFFORTS
            THEN [actualModel |-> SubSeq(name, 1, lastDash),
                  reasoningEffort |-> suffix]
            ELSE [actualModel |-> name, reasoningEffort |-> Undefined]

-----------------------------------------------------------------------------
(* Request conversion (part_000): tool_choice, reasoning effort, codexBody *)

\* a tool_choice value with its typeof: kind is "undefined", "null", "string",
\* "number" or "object"
NoToolChoice == [kind |-> "undefined", str |-> "", type |-> Undefined, name |-> Undefined]
ToolChoiceString(s) == [NoToolChoice EXCEPT !.kind = "string", !.str = s]
ToolChoiceObject(type, name) ==
    [NoToolChoice EXCEPT !.kind = "object", !.type = type, !.name = name]
ToolChoiceNumber == [NoToolChoice EXCEPT !.kind = "number", !.str = "1"]
ToolChoiceNull == [NoToolChoice EXCEPT !.kind = "null"]

\* returning NoToolChoice is returning undefined
convertToolChoiceToCodex(toolChoice) ==
    IF toolChoice.kind \in {"undefined", "null"}
       \/ (toolChoice.kind = "string" /\ toolChoice.str = "")
    THEN NoToolChoice
    ELSE IF toolChoice.kind = "string"
    THEN IF toolChoice.str = "auto" THEN ToolChoiceString("auto")
         ELSE IF toolChoice.str = "any" THEN ToolChoiceString("required")
         ELSE IF toolChoice.str = "none" THEN ToolChoiceString("none")
         ELSE toolChoice
    ELSE IF toolChoice.kind = "object"
    THEN IF toolChoice.type = "auto" THEN ToolChoiceString("auto")
         ELSE IF toolChoice.type = "any" THEN ToolChoiceString("required")
         ELSE IF toolChoice.type = "tool" /\ ~Falsy(toolChoice.name)
         THEN ToolChoiceObject("function", toolChoice.name)
         ELSE NoToolChoice
    ELSE NoToolChoice

\* the budget at and below which the effort is medium
MEDIUM_BUDGET == 20000

\* an effort that is high from the limit on
budgetToEffortBelow(thinking) ==
    IF thinking = <<>> THEN Undefined
    ELSE IF thinking[1].type # "enabled" \/ OrZero(thinking[1].budget_tokens) = 0
    THEN Undefined
    ELSE IF thinking[1].budget_tokens[1] < MEDIUM_BUDGET THEN "medium" ELSE "high"

\* thinking is <<>> (absent) or <<[type, budget_tokens]>>; null is Undefined
thinkingBudgetToEffort(thinking) ==
    IF thinking = <<>> THEN Undefined
    ELSE IF thinking[1].type # "enabled" \/ OrZero(thinking[1].budget_tokens) = 0
    THEN Undefined
    ELSE IF thinking[1].budget_tokens[1] <= MEDIUM_BUDGET THEN "medium" ELSE "high"

\* returns [codexBody, toolIdMap, actualModel, rng]; of codexBody the fields
\* model, input, max_output_tokens, stream, tool_choice and reasoning
\* body.system: absent, a string, an array of parts, or another value
NoSystem == [kind |-> "undefined", text |-> "", parts |-> <<>>]
SystemString(s) == [NoSystem EXCEPT !.kind = "string", !.text = s]
SystemArray(parts) == [NoSystem EXCEPT !.kind = "array", !.parts = parts]
SystemObject == [NoSystem EXCEPT !.kind = "object"]

\* a part of a system array; text is a typed value
SystemPart(type, text) == [type |-> type, text |-> text]

BILLING_HEADER == "x-anthropic-billing-header"
SYSTEM_REMINDER == "<system-reminder>"

\* the test of the loop body: the part is pushed
contributes(item) ==
    /\ item.type = "text"
    /\ item.text.isString
    /\ LET trimmed == trim(item.text.str)
       IN /\ ~startsWith(trimmed, BILLING_HEADER)
          /\ ~startsWith(trimmed, SYSTEM_REMINDER)

\* parts.join('\n\n') over the parts pushed
RECURSIVE joinParts(_, _, _)
joinParts(parts, i, first) ==
    IF i > Len(parts) THEN ""
    ELSE IF contributes(parts[i])
    THEN (IF first THEN "" ELSE "\n\n") \o parts[i].text.str
         \o joinParts(parts, i + 1, FALSE)
    ELSE joinParts(parts, i + 1, first)

extractInstructionsFromSystem(system) ==
    CASE system.kind = "undefined" -> ""
      [] system.kind = "string" ->
            IF system.text = "" THEN ""
            ELSE IF startsWith(trim(system.text), BILLING_HEADER) THEN ""
            ELSE system.text
      [] system.kind = "array" -> joinParts(system.parts, 1, TRUE)
      [] OTHER -> ""

convertAnthropicRequestToCodex(body, baseModel, n) ==
    LET model == parseModelWithReasoning(baseModel)
        instructions == extractInstructionsFromSystem(body.system)
        fallbackEffort == thinkingBudgetToEffort(body.thinking)
        effort == OrElse(OrElse(model.reasoningEffort, fallbackEffort), "medium")
        translated == convertMessagesToCodexInput(body.messages, n)
        toolChoice == convertToolChoiceToCodex(body.tool_choice)
    IN [codexBody |->
            [model |-> model.actualModel,
             input |-> translated.input,
             instructions |-> IF instructions # "" THEN <<instructions>> ELSE <<>>,
             max_output_tokens |->
                 IF OrZero(body.max_tokens) # 0 THEN body.max_tokens ELSE <<>>,
             stream |-> body.stream,
             tool_choice |-> toolChoice,
             reasoning |-> IF Falsy(effort) THEN <<>>
                           ELSE <<[effort |-> effort, summary |-> "auto"]>>],
        toolIdMap |-> translated.toolIdMap,
        actualModel |-> model.actualModel,
        rng |-> translated.rng]

-----------------------------------------------------------------------------
(* What each specification leaves alone *)

IdleResponse ==
    /\ phase = "idle"
    /\ isStream = FALSE
    /\ messages = <<>>
    /\ input = <<>>
    /\ toolIdMap = <<>>
    /\ converter = NewConverter(0)
    /\ res = FreshRes
    /\ rng = 0
    /\ twin = NewRun(0)
    /\ fed = <<>>
    /\ codexResponse = <<>>
    /\ usageSink = <<>>
    /\ pending = <<>>

IdleAdapter ==
    /\ adaptPhase = "idle"
    /\ heap = <<>>
    /\ adaptArgs = <<>>
    /\ inputBefore = <<>>
    /\ adaptResult = <<>>
    /\ firstResult = <<>>

IdleParser ==
    /\ modelName = ""
    /\ parsed = <<>>

IdleRequest ==
    /\ request = <<>>
    /\ codexRequest = <<>>

IdleError ==
    /\ upstream = <<>>
    /\ chunks = <<>>
    /\ scheduler = <<>>

IdleBridge == bridge = <<>>

-----------------------------------------------------------------------------
(* The request's conversation history *)

NoMsgBlock ==
    [type |-> Undefined, text |-> Undefined, id |-> Undefined, name |-> Undefined,
     input |-> Undefined, tool_use_id |-> Undefined, content |-> Undefined]

ToolUse(id) ==
    [role |-> "assistant",
     block |-> [NoMsgBlock EXCEPT !.type = "tool_use", !.id = id, !.name = "run",
                                  !.input = "{}"]]

ToolResult(id) ==
    [role |-> "user",
     block |-> [NoMsgBlock EXCEPT !.type = "tool_result", !.tool_use_id = id,
                                  !.content = "ok"]]

Text(role) ==
    [role |-> role, block |-> [NoMsgBlock EXCEPT !.type = "text", !.text = "hi"]]

Thinking ==
    [role |-> "assistant",
     block |-> [NoMsgBlock EXCEPT !.type = "thinking", !.text = "hm"]]

\* the histories of the requests whose response handling Spec explores
StreamHistories ==
    { <<Text("user")>>,
      <<Text("user"), ToolUse("toolu_A"), ToolResult("toolu_A")>> }

-----------------------------------------------------------------------------
(* The upstream events of Spec *)

CompletedResponses ==
    { [NoResponse EXCEPT
          !.usage = Usage(<<100>>, <<20>>, <<40>>), !.status = "completed",
          !.output = <<FunctionCallOutput("call_A", "{\"x\":1}")>>],
      [NoResponse EXCEPT
          !.status = "incomplete", !.incomplete_reason = "max_output_tokens",
          !.output = <<[NoOutputItem EXCEPT
                          !.type = "message",
                          !.content = <<[type |-> "output_text", text |-> "t"]>>]>>],
      [NoResponse EXCEPT
          !.usage = Usage(<<10>>, <<0>>, <<30>>), !.status = "completed"] }

UpstreamEvents ==
    { Event(Undefined), Event("response.created"), Event("response.in_progress"),
      Event("response.reasoning_summary_part.added"),
      Event("response.reasoning_summary_part.done"),
      Event("response.content_part.done") }
    \cup { [Event("response.output_item.added") EXCEPT !.item = it] :
             it \in { FunctionCallItem(CallId(0), "run"),
                      FunctionCallItem("call_U", "run"),
                      FunctionCallItem(Undefined, Undefined),
                      [NoEventItem EXCEPT !.type = "message"] } }
    \cup { [Event("response.output_item.done") EXCEPT !.item = it] :
             it \in { FunctionCallItem("call_U", "run"),
                      [NoEventItem EXCEPT !.type = "message"] } }
    \cup { [Event("response.content_part.added") EXCEPT !.part = [type |-> t]] :
             t \in {"output_text", "refusal"} }
    \cup { [Event("response.output_text.delta") EXCEPT !.delta = d] :
             d \in {Undefined, "t"} }
    \cup { [Event(t) EXCEPT !.delta = "t"] :
             t \in {"response.reasoning_summary_text.delta",
                    "response.function_call_arguments.delta"} }
    \cup { [Event("response.completed") EXCEPT !.response = r] :
             r \in CompletedResponses }

-----------------------------------------------------------------------------
(* Response handling of one request whose upstream answered 200 *)

\* the state when the upstream response arrives: the request was translated,
\* and in stream mode handleStreamResponse has constructed its converter (the
\* non-stream path constructs none and never reads the variable)
ResponseInit(histories) ==
    /\ phase = "open"
    /\ isStream \in BOOLEAN
    /\ messages \in histories
    /\ LET t == convertMessagesToCodexInput(messages, 0)
       IN /\ input = t.input
          /\ toolIdMap = t.toolIdMap
          /\ converter = NewRun(t.rng).converter
          /\ res = FreshRes
          /\ rng = NewRun(t.rng).rng
          /\ twin = NewRun(t.rng + MaxEvents + 2)
    /\ fed = <<>>
    /\ codexResponse = <<>>
    /\ usageSink = <<>>
    /\ pending = <<>>
    /\ IdleAdapter
    /\ IdleParser
    /\ IdleRequest
    /\ IdleError
    /\ IdleBridge

\* handleStreamResponse, upstream.data.on('data'): one parsed payload
StreamData(events, max) ==
    /\ phase = "open"
    /\ isStream
    /\ Len(fed) < max
    /\ \E e \in events :
         LET src == Len(fed) + 1
             run == processEvent([converter |-> converter, res |-> res, rng |-> rng],
                                 toolIdMap, e, src)
         IN /\ fed' = Append(fed, e)
            /\ converter' = run.converter
            /\ res' = run.res
            /\ rng' = run.rng
            /\ twin' = processEvent(twin, toolIdMap, e, src)
    /\ UNCHANGED <<phase, isStream, messages, input, toolIdMap, codexResponse,
                   usageSink, pending>>
    /\ UNCHANGED <<adapterVars, parserVars, requestVars, errorVars, bridge>>

\* res.destroyed, for a request whose client may disconnect
Destroyed == bridge # <<>> /\ bridge.resDestroyed

\* what the parser still holds when the stream ends: nothing, or a last
\* payload that came without its blank line, which the end handler feeds
Remaining(events, max) ==
    { <<>> } \cup (IF Len(fed) < max THEN { <<e>> : e \in events } ELSE {})

\* if (!res.destroyed && !res.writableEnded) res.end()
endUnlessGone(r, destroyed) ==
    IF destroyed \/ r.ended THEN r ELSE [r EXCEPT !.ended = TRUE, !.finals = @ + 1]

\* handleStreamResponse, upstream.data.on('end'): the remaining payload is
\* converted, and either apiKeyService.recordUsage is called and awaited, or
\* there is no usage and the response is ended at once
StreamEnd(events, max) ==
    /\ phase = "open"
    /\ isStream
    /\ \E last \in Remaining(events, max) :
         LET src == Len(fed) + 1
             now == [converter |-> converter, res |-> res, rng |-> rng]
             run == IF last = <<>> THEN now
                    ELSE processEvent(now, toolIdMap, last[1], src)
             also == IF last = <<>> THEN twin
                     ELSE processEvent(twin, toolIdMap, last[1], src)
             sink == recordStreamUsage(usageSink, run.converter)
         IN /\ fed' = fed \o last
            /\ converter' = run.converter
            /\ rng' = run.rng
            /\ usageSink' = sink
            /\ IF sink # usageSink
               THEN /\ res' = run.res
                    /\ twin' = also
                    /\ pending' = <<"end">>
                    /\ phase' = "recording"
               ELSE /\ res' = endUnlessGone(run.res, Destroyed)
                    /\ twin' = [also EXCEPT !.res.ended = TRUE, !.res.finals = @ + 1]
                    /\ pending' = <<>>
                    /\ phase' = "done"
    /\ UNCHANGED <<isStream, messages, input, toolIdMap, codexResponse>>
    /\ UNCHANGED <<adapterVars, parserVars, requestVars, errorVars, bridge>>

\* collectCodexStreamAsResponse, upstream.data.on('data'): one parsed payload
CollectData(events, max) ==
    /\ phase = "open"
    /\ ~isStream
    /\ Len(fed) < max
    /\ \E e \in events :
         /\ fed' = Append(fed, e)
         /\ codexResponse' = collectEvent(codexResponse, e)
    /\ UNCHANGED <<phase, isStream, messages, input, toolIdMap, converter, res,
                   rng, twin, usageSink, pending>>
    /\ UNCHANGED <<adapterVars, parserVars, requestVars, errorVars, bridge>>

\* collectCodexStreamAsResponse resolves with what it collected, last being
\* the payload its end handler fed; then the 502, or handleNonStreamResponse,
\* which converts and either calls apiKeyService.recordUsage and awaits it, or
\* has no usage and answers at once
CollectResolves(last) ==
    LET collected == IF last = <<>> THEN codexResponse
                     ELSE collectEvent(codexResponse, last[1])
    IN /\ fed' = fed \o last
       /\ codexResponse' = collected
       /\ IF collected = <<>>
          THEN /\ res' = respondBadGateway(res)
               /\ phase' = "done"
               /\ UNCHANGED <<rng, usageSink, pending>>
          ELSE LET done == handleNonStreamResponse(collected[1], toolIdMap, rng,
                                                   res, usageSink)
               IN /\ usageSink' = done.usageSink
                  /\ rng' = done.rng
                  /\ IF done.usageSink # usageSink
                     THEN /\ res' = res
                          /\ pending' = <<done.res>>
                          /\ phase' = "recording"
                     ELSE /\ res' = done.res
                          /\ pending' = <<>>
                          /\ phase' = "done"
       /\ UNCHANGED <<isStream, messages, input, toolIdMap, converter, twin>>
       /\ UNCHANGED <<adapterVars, parserVars, requestVars, errorVars>>

\* collectCodexStreamAsResponse, upstream.data.on('end')
CollectEnd(events, max) ==
    /\ phase = "open"
    /\ ~isStream
    /\ \E last \in Remaining(events, max) : CollectResolves(last)
    /\ UNCHANGED bridge

\* apiKeyService.recordUsage settles, fulfilled or rejected (the rejection is
\* caught): the end handler of the stream ends the response unless it is gone,
\* handleNonStreamResponse answers 200
UsageSettles ==
    /\ pending # <<>>
    /\ phase \in {"recording", "done"}
    /\ IF isStream
       THEN /\ res' = endUnlessGone(res, Destroyed)
            /\ twin' = [twin EXCEPT !.res.ended = TRUE, !.res.finals = @ + 1]
       ELSE /\ res' = pending[1]
            /\ twin' = twin
    /\ pending' = <<>>
    /\ phase' = "done"
    /\ UNCHANGED <<isStream, messages, input, toolIdMap, converter, rng, fed,
                   codexResponse, usageSink>>
    /\ UNCHANGED <<adapterVars, parserVars, requestVars, errorVars, bridge>>

Init == ResponseInit(StreamHistories)

Next ==
    \/ StreamData(UpstreamEvents, MaxEvents)
    \/ StreamEnd(UpstreamEvents, MaxEvents)
    \/ CollectData(UpstreamEvents, MaxEvents)
    \/ CollectEnd(UpstreamEvents, MaxEvents)
    \/ UsageSettles

Spec == Init /\ [][Next]_vars

-----------------------------------------------------------------------------
(* SpecUsage: a request whose upstream completes with any usage payload *)

OptionalTokens == {<<>>} \cup { <<n>> : n \in 0..MaxTokens }

UsageEvents ==
    { Event("response.created") }
    \cup { [Event("response.completed") EXCEPT
              !.response = [NoResponse EXCEPT !.usage = Usage(i, o, c),
                                              !.status = "completed"]] :
             i \in OptionalTokens, o \in OptionalTokens, c \in OptionalTokens }

InitUsage == ResponseInit({ <<Text("user")>> })

NextUsage ==
    \/ StreamData(UsageEvents, MaxFewEvents)
    \/ StreamEnd(UsageEvents, MaxFewEvents)
    \/ CollectData(UsageEvents, MaxFewEvents)
    \/ CollectEnd(UsageEvents, MaxFewEvents)
    \/ UsageSettles

SpecUsage == InitUsage /\ [][NextUsage]_vars

-----------------------------------------------------------------------------
(* SpecTools: tool calls of the upstream against any history of tool uses *)

ClientIds == {"toolu_A", "toolu_B", "call_U", "", Undefined}

RECURSIVE ToolHistoriesOf(_)
ToolHistoriesOf(n) ==
    IF n = 0 THEN { <<>> }
    ELSE ToolHistoriesOf(n - 1)
         \cup { Append(h, ToolUse(id)) :
                  h \in { g \in ToolHistoriesOf(n - 1) : Len(g) = n - 1 },
                  id \in ClientIds }

ToolHistories == ToolHistoriesOf(MaxBlocks)

UpstreamCallIds ==
    { CallId(n) : n \in 0..(MaxBlocks - 1) } \cup {"call_U", "", Undefined}

ToolEvents ==
    { [Event("response.output_item.added") EXCEPT
          !.item = FunctionCallItem(c, "run")] : c \in UpstreamCallIds }
    \cup { [Event("response.completed") EXCEPT
              !.response = [NoResponse EXCEPT
                  !.status = "completed", !.usage = Usage(<<100>>, <<20>>, <<40>>),
                  !.output = <<FunctionCallOutput(c, "{}")>>]] :
             c \in UpstreamCallIds }

InitTools == ResponseInit(ToolHistories)

NextTools ==
    \/ StreamData(ToolEvents, MaxFewEvents)
    \/ StreamEnd(ToolEvents, MaxFewEvents)
    \/ CollectData(ToolEvents, MaxFewEvents)
    \/ CollectEnd(ToolEvents, MaxFewEvents)
    \/ UsageSettles

SpecTools == InitTools /\ [][NextTools]_vars

-----------------------------------------------------------------------------
(* SpecScenario: the converter fed the payloads of one tool call, in any order *)

MaxScenario == 6

\* a tool call streamed in full: created, item added, two argument deltas,
\* item done, completed
ScenarioD ==
    << Event("response.created"),
       [Event("response.output_item.added") EXCEPT
           !.item = FunctionCallItem("call_A", "run")],
       [Event("response.function_call_arguments.delta") EXCEPT !.delta = "{\"x\""],
       [Event("response.function_call_arguments.delta") EXCEPT !.delta = ":1}"],
       [Event("response.output_item.done") EXCEPT
           !.item = FunctionCallItem("call_A", "run")],
       [Event("response.completed") EXCEPT
           !.response = [NoResponse EXCEPT
               !.usage = Usage(<<100>>, <<20>>, <<40>>), !.status = "completed",
               !.output = <<FunctionCallOutput("call_A", "{\"x\":1}")>>]] >>

ScenarioEvents == { ScenarioD[i] : i \in 1..Len(ScenarioD) }

\* a stream request whose history holds no tool use: toolIdMap is empty
InitScenario == ResponseInit({ <<Text("user")>> }) /\ isStream

NextScenario ==
    \/ StreamData(ScenarioEvents, MaxScenario)
    \/ StreamEnd(ScenarioEvents, MaxScenario)
    \/ UsageSettles

SpecScenario == InitScenario /\ [][NextScenario]_vars

-----------------------------------------------------------------------------
(* SpecModes: one upstream stream handled in stream mode and, beside it, in *)
(* non-stream mode.  The request's own variables follow handleStreamResponse; *)
(* twin holds what collectCodexStreamAsResponse and handleNonStreamResponse    *)
(* make of the same events: [codexResponse, res, usageSink, rng, pending].     *)

StopStates ==
    { <<"completed", Undefined>>, <<"incomplete", "max_output_tokens">>,
      <<"incomplete", "content_filter">>, <<Undefined, "max_output_tokens">> }

MessageOutput ==
    [NoOutputItem EXCEPT !.type = "message",
                         !.content = <<[type |-> "output_text", text |-> "t"]>>]

StopOutputs ==
    { <<>>, <<MessageOutput>>, <<FunctionCallOutput(CallId(0), "{}")>>,
      <<MessageOutput, FunctionCallOutput("call_U", "{}")>> }

StopUsages == { NoUsage, Usage(<<100>>, <<20>>, <<40>>) }

ModesEvents ==
    { Event("response.created"), Event("response.completed"),
      [Event("response.output_item.added") EXCEPT
          !.item = FunctionCallItem(CallId(0), "run")] }
    \cup { [Event("response.completed") EXCEPT
              !.response = [NoResponse EXCEPT
                  !.status = st[1], !.incomplete_reason = st[2],
                  !.output = out, !.usage = u]] :
             st \in StopStates, out \in StopOutputs, u \in StopUsages }

InitModes ==
    /\ phase = "open"
    /\ isStream = TRUE
    /\ messages \in StreamHistories
    /\ LET t == convertMessagesToCodexInput(messages, 0)
       IN /\ input = t.input
          /\ toolIdMap = t.toolIdMap
          /\ converter = NewRun(t.rng).converter
          /\ res = FreshRes
          /\ rng = NewRun(t.rng).rng
          /\ twin = [codexResponse |-> <<>>, res |-> FreshRes, usageSink |-> <<>>,
                     rng |-> NewRun(t.rng).rng, pending |-> <<>>]
    /\ fed = <<>>
    /\ codexResponse = <<>>
    /\ usageSink = <<>>
    /\ pending = <<>>
    /\ IdleAdapter
    /\ IdleParser
    /\ IdleRequest
    /\ IdleError
    /\ IdleBridge

\* one parsed payload reaches both data handlers
ModesData ==
    /\ phase = "open"
    /\ Len(fed) < MaxFewEvents
    /\ \E e \in ModesEvents :
         LET src == Len(fed) + 1
             run == processEvent([converter |-> converter, res |-> res, rng |-> rng],
                                 toolIdMap, e, src)
         IN /\ fed' = Append(fed, e)
            /\ converter' = run.converter
            /\ res' = run.res
            /\ rng' = run.rng
            /\ twin' = [twin EXCEPT !.codexResponse = collectEvent(@, e)]
    /\ UNCHANGED <<phase, isStream, messages, input, toolIdMap, codexResponse,
                   usageSink, pending>>
    /\ UNCHANGED <<adapterVars, parserVars, requestVars, errorVars, bridge>>

\* what follows collectCodexStreamAsResponse once its promise resolves: the
\* 502, or handleNonStreamResponse as far as its await of recordUsage, or to
\* its answer when there is no usage
finishCollected(t, map) ==
    IF t.codexResponse = <<>>
    THEN [t EXCEPT !.res = respondBadGateway(@)]
    ELSE LET done == handleNonStreamResponse(t.codexResponse[1], map, t.rng, t.res,
                                             t.usageSink)
         IN IF done.usageSink # t.usageSink
            THEN [t EXCEPT !.usageSink = done.usageSink, !.rng = done.rng,
                           !.pending = <<done.res>>]
            ELSE [t EXCEPT !.res = done.res, !.rng = done.rng]

\* upstream.data.on('end') in both modes, each end handler feeding the payload
\* the parser still holds
ModesEnd ==
    /\ phase = "open"
    /\ \E last \in Remaining(ModesEvents, MaxFewEvents) :
         LET src == Len(fed) + 1
             now == [converter |-> converter, res |-> res, rng |-> rng]
             run == IF last = <<>> THEN now
                    ELSE processEvent(now, toolIdMap, last[1], src)
             sink == recordStreamUsage(usageSink, run.converter)
             collected == IF last = <<>> THEN twin
                          ELSE [twin EXCEPT !.codexResponse = collectEvent(@, last[1])]
         IN /\ fed' = fed \o last
            /\ converter' = run.converter
            /\ rng' = run.rng
            /\ usageSink' = sink
            /\ twin' = finishCollected(collected, toolIdMap)
            /\ IF sink # usageSink
               THEN /\ res' = run.res
                    /\ pending' = <<"end">>
                    /\ phase' = "recording"
               ELSE /\ res' = endUnlessGone(run.res, FALSE)
                    /\ pending' = <<>>
                    /\ phase' = "done"
    /\ UNCHANGED <<isStream, messages, input, toolIdMap, codexResponse>>
    /\ UNCHANGED <<adapterVars, parserVars, requestVars, errorVars, bridge>>

\* upstream.data.on('error') in both modes: the stream handler writes an error
\* event and records nothing, the collector resolves with what it holds
ModesError ==
    /\ phase = "open"
    /\ res' = [writeAnthropicSseEvent(res,
                    [SseEvent("error", Len(fed) + 1) EXCEPT
                        !.error = [type |-> "api_error",
                                   message |-> "Upstream stream error"]])
                 EXCEPT !.ended = TRUE, !.finals = @ + 1]
    /\ twin' = finishCollected(twin, toolIdMap)
    /\ phase' = "failed"
    /\ UNCHANGED <<isStream, messages, input, toolIdMap, converter, rng, fed,
                   codexResponse, usageSink, pending>>
    /\ UNCHANGED <<adapterVars, parserVars, requestVars, errorVars, bridge>>

\* recordUsage of the stream side settles: its end handler ends the response
ModesSettles ==
    /\ phase = "recording"
    /\ res' = endUnlessGone(res, FALSE)
    /\ pending' = <<>>
    /\ phase' = "done"
    /\ UNCHANGED <<isStream, messages, input, toolIdMap, converter, rng, twin, fed,
                   codexResponse, usageSink>>
    /\ UNCHANGED <<adapterVars, parserVars, requestVars, errorVars, bridge>>

\* recordUsage of the non-stream side settles: handleNonStreamResponse answers
TwinSettles ==
    /\ twin.pending # <<>>
    /\ twin' = [twin EXCEPT !.res = twin.pending[1], !.pending = <<>>]
    /\ UNCHANGED <<phase, isStream, messages, input, toolIdMap, converter, res, rng,
                   fed, codexResponse, usageSink, pending>>
    /\ UNCHANGED <<adapterVars, parserVars, requestVars, errorVars, bridge>>

NextModes == ModesData \/ ModesEnd \/ ModesError \/ ModesSettles \/ TwinSettles

SpecModes == InitModes /\ [][NextModes]_vars

-----------------------------------------------------------------------------
(* SpecAdapter: adaptCodexRequestBody on any body, client kind and config, *)
(* and a second time on the body it returned                               *)

TextAlphabet == {"S", "C", " "}

RECURSIVE TextsUpTo(_)
TextsUpTo(n) ==
    IF n = 0 THEN {""}
    ELSE TextsUpTo(n - 1)
         \cup { t \o c : t \in { u \in TextsUpTo(n - 1) : Len(u) = n - 1 },
                         c \in TextAlphabet }

\* the own properties of a body besides instructions
OtherFields == { {"foo"}, {"max_output_tokens", "temperature", "foo"} }

\* the instructions of a body: every short text with the one-field body, two
\* values with the larger one
InstructionsOf(fields) ==
    IF fields = {"foo"}
    THEN {Num("1")} \cup { Str(t) : t \in TextsUpTo(MaxTextLen) }
    ELSE {Num("1"), Str("C")}

BodyObjects ==
    { [f \in fields |-> Num("1")] : fields \in OtherFields }
    \cup UNION { { Assign([f \in fields |-> Num("1")], "instructions", v) :
                     v \in InstructionsOf(fields) } :
                   fields \in OtherFields }

\* instructions.mode of the raw config
RawModes == {Undef, Str("overwrite"), Str("prepend"), Str("PREPEND"), Str("none")}

\* <<instructions.applyWhen, applyWhen>> of the raw config
RawApplyWhens ==
    { <<Undef, Undef>>, <<Undef, Str("all")>>, <<Str("ALL"), Undef>>,
      <<Str("non_codex"), Str("all")>> }

\* <<instructions.text, defaultInstructionsText>>
RawTexts ==
    { <<Undef, Str("D")>>, <<Str(" "), Undef>>,
      <<Str("S"), Undef>>, <<Str("SC"), Str("D")>> }

\* stripFields of the raw config
RawStripFields ==
    { [enabled |-> Undefined, fields |-> <<>>],
      [enabled |-> "false", fields |-> <<>>],
      [enabled |-> "true", fields |-> <<"foo", "instructions", "temperature">>] }

AllAdapterArgs ==
    { [body |-> 0,
       isCodexCLI |-> cli,
       adapterConfig |->
          [enabled |-> en,
           instructions |-> [mode |-> mode, applyWhen |-> when[1], text |-> text[1]],
           applyWhen |-> when[2],
           stripFields |-> strip],
       defaultInstructionsText |-> text[2]] :
        cli \in BOOLEAN, en \in {Undefined, "false"}, mode \in RawModes,
        when \in RawApplyWhens, text \in RawTexts, strip \in RawStripFields }

\* the calls' options; a disabled adapter is tried under the configs with
\* server text S and the default stripFields
AdapterArgs ==
    { args \in AllAdapterArgs :
        \/ args.adapterConfig.enabled = Undefined
        \/ /\ args.adapterConfig.instructions.text = Str("S")
           /\ args.adapterConfig.stripFields.enabled = Undefined }

InitAdapter ==
    /\ adaptPhase = "call"
    /\ \E args \in AdapterArgs :
          \/ /\ heap = <<>>
             /\ adaptArgs = args
             /\ inputBefore = <<>>
          \/ \E obj \in BodyObjects :
                /\ heap = <<obj>>
                /\ adaptArgs = [args EXCEPT !.body = 1]
                /\ inputBefore = <<[ref |-> 1, fields |-> obj]>>
    /\ adaptResult = <<>>
    /\ firstResult = <<>>
    /\ IdleResponse
    /\ IdleParser
    /\ IdleRequest
    /\ IdleError
    /\ IdleBridge

Returned(r) == <<[body |-> r.body, applied |-> r.applied, changes |-> r.changes]>>

\* the request's call of adaptCodexRequestBody
Adapt ==
    /\ adaptPhase = "call"
    /\ LET r == adaptCodexRequestBody(heap, adaptArgs.body, adaptArgs.isCodexCLI,
                                      adaptArgs.adapterConfig,
                                      adaptArgs.defaultInstructionsText)
       IN /\ heap' = r.heap
          /\ adaptResult' = Returned(r)
          /\ firstResult' = Returned(r)
    /\ adaptPhase' = "returned"
    /\ UNCHANGED <<adaptArgs, inputBefore>>
    /\ UNCHANGED <<respVars, parserVars, requestVars, errorVars, bridge>>

\* a second call, on the body the first call returned, with the same options
AdaptAgain ==
    /\ adaptPhase = "returned"
    /\ LET body == adaptResult[1].body
           r == adaptCodexRequestBody(heap, body, adaptArgs.isCodexCLI,
                                      adaptArgs.adapterConfig,
                                      adaptArgs.defaultInstructionsText)
       IN /\ heap' = r.heap
          /\ adaptResult' = Returned(r)
          /\ adaptArgs' = [adaptArgs EXCEPT !.body = body]
          /\ inputBefore' =
                IF body = 0 THEN inputBefore
                ELSE Append(inputBefore, [ref |-> body, fields |-> heap[body]])
    /\ adaptPhase' = "again"
    /\ UNCHANGED firstResult
    /\ UNCHANGED <<respVars, parserVars, requestVars, errorVars, bridge>>

NextAdapter == Adapt \/ AdaptAgain

SpecAdapter == InitAdapter /\ [][NextAdapter]_vars

-----------------------------------------------------------------------------
(* SpecParser: parseModelWithReasoning on model names *)

ModelStems == {"", "-", "gpt", "gpt-5.2", "gpt-5.2-codex", "codex-mini"}

ModelTails ==
    {"", "low", "LOW", "Low", "medium", "Medium", "high", "HIGH", "xhigh",
     "XHigh", "latest", "mini", "lowx", "xlow", "5.2"}

ModelNames ==
    { stem \o dash \o tail :
        stem \in ModelStems, dash \in {"", "-"}, tail \in ModelTails }

InitParser ==
    /\ modelName \in ModelNames
    /\ parsed = <<>>
    /\ IdleResponse
    /\ IdleAdapter
    /\ IdleRequest
    /\ IdleError
    /\ IdleBridge

Parse ==
    /\ parsed = <<>>
    /\ parsed' = <<parseModelWithReasoning(modelName)>>
    /\ UNCHANGED modelName
    /\ UNCHANGED <<respVars, adapterVars, requestVars, errorVars, bridge>>

NextParser == Parse

SpecParser == InitParser /\ [][NextParser]_vars

-----------------------------------------------------------------------------
(* SpecRequest: convertAnthropicRequestToCodex on Messages requests *)

RequestToolIds == {"toolu_A", "toolu_B", ""}

\* the content blocks of a request, each with the role of its message
RequestBlocks ==
    { ToolUse(id) : id \in RequestToolIds }
    \cup { ToolResult(id) : id \in RequestToolIds }
    \cup { Text("user"), Text("assistant"), Thinking,
           [ToolUse("toolu_A") EXCEPT !.role = "user"],
           [ToolResult("toolu_A") EXCEPT !.role = "assistant"] }

RECURSIVE HistoriesUpTo(_)
HistoriesUpTo(n) ==
    IF n = 0 THEN { <<>> }
    ELSE HistoriesUpTo(n - 1)
         \cup { Append(h, b) :
                  h \in { g \in HistoriesUpTo(n - 1) : Len(g) = n - 1 },
                  b \in RequestBlocks }

BaseModels ==
    {"", "gpt-5", "gpt-5-high", "gpt-5-LOW", "gpt-5.2-codex-xhigh", "codex-mini-latest"}

Budgets == {0, 1, MEDIUM_BUDGET - 1, MEDIUM_BUDGET, MEDIUM_BUDGET + 1, 2 * MEDIUM_BUDGET}

Thinkings ==
    { <<>>,
      <<[type |-> "enabled", budget_tokens |-> <<>>]>>,
      <<[type |-> "disabled", budget_tokens |-> <<MEDIUM_BUDGET + 1>>]>>,
      <<[type |-> Undefined, budget_tokens |-> <<MEDIUM_BUDGET + 1>>]>> }
    \cup { <<[type |-> "enabled", budget_tokens |-> <<b>>]>> : b \in Budgets }

ToolChoices ==
    { NoToolChoice, ToolChoiceNull, ToolChoiceNumber }
    \cup { ToolChoiceString(c) : c \in {"", "auto", "any", "none", "required", "tool"} }
    \cup { ToolChoiceObject(t, Undefined) :
             t \in {Undefined, "auto", "any", "none", "tool", "function"} }
    \cup { ToolChoiceObject(t, name) : t \in {"tool", "function"}, name \in {"", "run"} }

\* <<max_tokens, stream>>
Deliveries == { <<<<>>, Undefined>>, <<<<0>>, "false">>, <<<<1>>, "true">> }

PlainBody ==
    [messages |-> <<Text("user")>>, thinking |-> <<>>, tool_choice |-> NoToolChoice,
     max_tokens |-> <<>>, stream |-> Undefined, system |-> NoSystem]

MaxParts == 2

SystemTexts ==
    { "", "be brief", "x-anthropic-billing-header: v", " x-anthropic-billing-header",
      "<system-reminder>r", "\n<system-reminder>", "say <system-reminder>" }

SystemParts ==
    { SystemPart("text", Str(t)) : t \in SystemTexts }
    \cup { SystemPart("text", Num("1")), SystemPart("image", Str("be brief")),
           SystemPart(Undefined, Undef) }

RECURSIVE PartsUpTo(_)
PartsUpTo(n) ==
    IF n = 0 THEN { <<>> }
    ELSE PartsUpTo(n - 1)
         \cup { Append(ps, p) : ps \in { q \in PartsUpTo(n - 1) : Len(q) = n - 1 },
                                p \in SystemParts }

Systems ==
    { NoSystem, SystemObject }
    \cup { SystemString(t) : t \in SystemTexts }
    \cup { SystemArray(ps) : ps \in PartsUpTo(MaxParts) }

Requests ==
    { [body |-> [PlainBody EXCEPT !.messages = h], baseModel |-> "gpt-5"] :
        h \in HistoriesUpTo(MaxHistory) }
    \cup { [body |-> [PlainBody EXCEPT !.thinking = t, !.tool_choice = c,
                                       !.max_tokens = d[1], !.stream = d[2]],
            baseModel |-> m] :
             t \in Thinkings, c \in ToolChoices, d \in Deliveries, m \in BaseModels }
    \cup { [body |-> [PlainBody EXCEPT !.system = sys], baseModel |-> "gpt-5"] :
             sys \in Systems }

InitRequest ==
    /\ request \in Requests
    /\ codexRequest = <<>>
    /\ IdleResponse
    /\ IdleAdapter
    /\ IdleParser
    /\ IdleError
    /\ IdleBridge

Convert ==
    /\ codexRequest = <<>>
    /\ codexRequest' =
          <<convertAnthropicRequestToCodex(request.body, request.baseModel, 0)>>
    /\ UNCHANGED request
    /\ UNCHANGED <<respVars, adapterVars, parserVars, errorVars, bridge>>

NextRequest == Convert

SpecRequest == InitRequest /\ [][NextRequest]_vars

-----------------------------------------------------------------------------
(* SpecRateLimit: a request whose upstream answered 429 *)

MaxCut == 2

BodyTexts == { t[1] : t \in JsonTexts } \cup { "rate limited", "" }

\* the ways a body arrives: whole, or cut in two after one of its first characters
Arrivals(text) ==
    IF text = "" THEN { <<>> }
    ELSE { <<text>> }
         \cup { <<SubSeq(text, 1, k), SubSeq(text, k + 1, Len(text))>> :
                  k \in { j \in 1..MaxCut : j < Len(text) } }

Upstreams ==
    { [status |-> 429, readable |-> TRUE, chunks |-> c, data |-> <<>>] :
        c \in UNION { Arrivals(text) : text \in BodyTexts } }
    \cup { [status |-> 429, readable |-> FALSE, chunks |-> <<>>, data |-> d] :
             d \in { <<>> } \cup { <<t[2]>> : t \in JsonTexts } }

\* the state at the 429 dispatch: nothing was written to the client, no
\* converter exists yet
InitRateLimit ==
    /\ phase = "open"
    /\ isStream \in BOOLEAN
    /\ messages = <<>>
    /\ input = <<>>
    /\ toolIdMap = <<>>
    /\ converter = NewConverter(0)
    /\ res = FreshRes
    /\ rng = 0
    /\ twin = NewRun(0)
    /\ fed = <<>>
    /\ codexResponse = <<>>
    /\ usageSink = <<>>
    /\ pending = <<>>
    /\ upstream \in Upstreams
    /\ chunks = <<>>
    /\ scheduler = <<>>
    /\ IdleAdapter
    /\ IdleParser
    /\ IdleRequest
    /\ IdleBridge

\* the handler once the drain has settled: the body is parsed and
\* markAccountRateLimited is called and awaited
Settle(settled) ==
    LET done == handleRateLimitError(settled, upstream, chunks, isStream, res,
                                     scheduler)
    IN /\ scheduler' = done.scheduler
       /\ pending' = <<done.res>>
       /\ phase' = "marking"
       /\ UNCHANGED <<isStream, messages, input, toolIdMap, converter, res, rng,
                      twin, fed, codexResponse, usageSink, upstream, chunks>>
       /\ UNCHANGED <<adapterVars, parserVars, requestVars, bridge>>

\* markAccountRateLimited settles: fulfilled, the handler answers; rejected,
\* with any error, the rejection leaves handleRateLimitError (the await is in
\* no try) and reaches the catch block of handleAnthropicMessagesToCodex, the
\* account selected and no header sent: the catch block answers, or calls
\* markAccountUnauthorized and awaits it, pending holding the error
MarkSettles ==
    /\ phase = "marking"
    /\ \/ /\ res' = pending[1]
          /\ pending' = <<>>
          /\ phase' = "done"
          /\ UNCHANGED scheduler
       \/ \E error \in ServiceErrors, markThrows \in BOOLEAN :
             LET done == catchError(error, TRUE, res, FALSE, FALSE, scheduler,
                                    markThrows)
             IN /\ res' = done.res
                /\ scheduler' = done.scheduler
                /\ pending' = IF done.marking THEN <<error>> ELSE <<>>
                /\ phase' = IF done.marking THEN "catching" ELSE "done"
    /\ UNCHANGED <<isStream, messages, input, toolIdMap, converter, rng, twin, fed,
                   codexResponse, usageSink, upstream, chunks>>
    /\ UNCHANGED <<adapterVars, parserVars, requestVars, bridge>>

\* markAccountUnauthorized, called by the catch block, settles, fulfilled or
\* rejected: the catch block answers the client
MarkCaught ==
    /\ phase = "catching"
    /\ res' = answerError(pending[1], res, FALSE, FALSE)
    /\ pending' = <<>>
    /\ phase' = "done"
    /\ UNCHANGED <<isStream, messages, input, toolIdMap, converter, rng, twin, fed,
                   codexResponse, usageSink>>
    /\ UNCHANGED <<adapterVars, parserVars, requestVars, errorVars, bridge>>

\* upstream.data.on('data'): the next chunk is pushed
DrainData ==
    /\ phase = "open"
    /\ upstream.readable
    /\ upstream.chunks # <<>>
    /\ chunks' = Append(chunks, Head(upstream.chunks))
    /\ upstream' = [upstream EXCEPT !.chunks = Tail(@)]
    /\ UNCHANGED <<respVars, scheduler>>
    /\ UNCHANGED <<adapterVars, parserVars, requestVars, bridge>>

\* upstream.data.on('end'): the whole body has arrived
DrainEnd ==
    /\ phase = "open"
    /\ upstream.readable
    /\ upstream.chunks = <<>>
    /\ Settle("resolved")

\* upstream.data.on('error'): the promise rejects, at any point of the body
DrainError ==
    /\ phase = "open"
    /\ upstream.readable
    /\ Settle("rejected")

\* the 5 s timer fires, at any point of the body
DrainTimeout ==
    /\ phase = "open"
    /\ upstream.readable
    /\ Settle("resolved")

\* upstream.data is no stream: it is taken as the error object
ReadObject ==
    /\ phase = "open"
    /\ ~upstream.readable
    /\ Settle("resolved")

NextRateLimit ==
    \/ DrainData
    \/ DrainEnd
    \/ DrainError
    \/ DrainTimeout
    \/ ReadObject
    \/ MarkSettles
    \/ MarkCaught

SpecRateLimit == InitRateLimit /\ [][NextRateLimit]_vars

-----------------------------------------------------------------------------
(* SpecBridge: handleAnthropicMessagesToCodex from the client's request to *)
(* the return of the handler, with the client free to disconnect            *)

\* a boolean or an object as the value of a body property
Bool(s) == [isString |-> FALSE, str |-> s]
Obj == [isString |-> FALSE, str |-> "object"]

\* the own properties of codexBody, with store set for an account that is not
\* of type openai-responses
bodyObject(codexBody, accountType) ==
    LET b0 == [f \in {"model", "input"} |->
                 IF f = "model" THEN Str(codexBody.model) ELSE Obj]
        b1 == IF codexBody.instructions # <<>>
              THEN Assign(b0, "instructions", Str(codexBody.instructions[1])) ELSE b0
        b2 == IF codexBody.max_output_tokens # <<>>
              THEN Assign(b1, "max_output_tokens",
                          Num(ToString(codexBody.max_output_tokens[1])))
              ELSE b1
        b3 == IF codexBody.stream # Undefined
              THEN Assign(b2, "stream", Bool(codexBody.stream)) ELSE b2
        b4 == IF codexBody.tool_choice # NoToolChoice
              THEN Assign(b3, "tool_choice",
                          IF codexBody.tool_choice.kind = "string"
                          THEN Str(codexBody.tool_choice.str) ELSE Obj)
              ELSE b3
        b5 == IF codexBody.reasoning # <<>> THEN Assign(b4, "reasoning", Obj) ELSE b4
    IN IF accountType = "openai-responses" THEN b5
       ELSE Assign(b5, "store", Bool("false"))

\* the body posted: codexBody or the adapter's copy of it, with stream forced
\* posting codexBody whatever the adapter returned
unadaptedBody(codexBody, accountType, isCodexCLI, adapterConfig) ==
    Assign(bodyObject(codexBody, accountType), "stream", Bool("true"))

finalBody(codexBody, accountType, isCodexCLI, adapterConfig) ==
    LET adapterResult == adaptCodexRequestBody(<<bodyObject(codexBody, accountType)>>,
                                               1, isCodexCLI, adapterConfig, Undef)
        final == IF adapterResult.applied THEN adapterResult.body ELSE 1
    IN Assign(adapterResult.heap[final], "stream", Bool("true"))

AccountTypes == {"openai", "openai-responses"}

\* config.openai.codexAdapter: absent, prepending instructions, or stripping
\* fields of its own choice
NoAdapterConfig ==
    [enabled |-> Undefined,
     instructions |-> [mode |-> Undef, applyWhen |-> Undef, text |-> Undef],
     applyWhen |-> Undef,
     stripFields |-> [enabled |-> Undefined, fields |-> <<>>]]

BridgeConfigs ==
    { NoAdapterConfig,
      [NoAdapterConfig EXCEPT !.instructions.mode = Str("prepend"),
                              !.instructions.text = Str("S")],
      [NoAdapterConfig EXCEPT !.stripFields.fields = <<"stream", "store">>] }

BridgeRequests ==
    { [body |-> [PlainBody EXCEPT !.max_tokens = d[1], !.stream = d[2]],
       baseModel |-> "gpt-5"] : d \in Deliveries }

\* the upstream answers: a status and the body still to arrive
BridgeStatuses == {200, 201, 401, 402, 429, 500}

BridgeBodies ==
    { <<>>, <<"rate limited">>,
      <<"{\"error\":{\"message\":\"slow down\",\"resets_in_seconds\":12}}">> }

BridgeUpstreams ==
    { [status |-> st, readable |-> TRUE, chunks |-> IF st \in {200, 201} THEN <<>> ELSE c,
       data |-> <<>>] : st \in BridgeStatuses, c \in BridgeBodies }

BridgeEvents ==
    { Event("response.created"),
      [Event("response.completed") EXCEPT
          !.response = [NoResponse EXCEPT !.usage = Usage(<<100>>, <<20>>, <<40>>),
                                          !.status = "completed"]] }

InitBridge ==
    /\ phase = "start"
    /\ request \in BridgeRequests
    /\ isStream = (request.body.stream = "true")
    /\ messages = request.body.messages
    /\ input = <<>>
    /\ toolIdMap = <<>>
    /\ converter = NewConverter(0)
    /\ res = FreshRes
    /\ rng = 0
    /\ twin = NewRun(0)
    /\ fed = <<>>
    /\ codexResponse = <<>>
    /\ usageSink = <<>>
    /\ pending = <<>>
    /\ codexRequest = <<>>
    /\ \E type \in AccountTypes, limited \in BOOLEAN, cli \in BOOLEAN,
          cfg \in BridgeConfigs :
          bridge = [accountType |-> type, accountId |-> FALSE, rateLimited |-> limited,
                    isCodexCLI |-> cli, adapterConfig |-> cfg,
                    reported |-> <<>>,
                    listeners |-> {}, client |-> "connected", closedAt |-> "",
                    resDestroyed |-> FALSE,
                    aborted |-> FALSE, upstreamDestroyed |-> FALSE, flushed |-> FALSE,
                    upstreamErrored |-> FALSE, thrown |-> <<>>,
                    outbound |-> <<>>]
    /\ IdleError
    /\ IdleAdapter
    /\ IdleParser

\* the error reaches the catch block: the handler returns, or waits for
\* markAccountUnauthorized to settle
Caught(error) ==
    \E markThrows \in BOOLEAN :
       LET done == catchError(error, bridge.accountId, res, bridge.flushed,
                              bridge.resDestroyed, scheduler, markThrows)
       IN /\ res' = done.res
          /\ scheduler' = done.scheduler
          /\ bridge' = [bridge EXCEPT !.thrown = <<error>>]
          /\ phase' = IF done.marking THEN "catching" ELSE "done"

\* markAccountUnauthorized, called by the catch block, settles, fulfilled or
\* rejected: the catch block answers the client
CatchAnswers ==
    /\ phase = "catching"
    /\ res' = answerError(bridge.thrown[1], res, bridge.flushed, bridge.resDestroyed)
    /\ phase' = "done"
    /\ UNCHANGED <<isStream, messages, input, toolIdMap, converter, rng, twin, fed,
                   codexResponse, usageSink, pending>>
    /\ UNCHANGED <<adapterVars, parserVars, requestVars, errorVars, bridge>>

\* the handler is called: the request is translated and the selection of an
\* account starts
Translate ==
    /\ phase = "start"
    /\ LET converted == convertAnthropicRequestToCodex(request.body,
                                                       request.baseModel, rng)
       IN /\ codexRequest' = <<converted>>
          /\ toolIdMap' = converted.toolIdMap
          /\ input' = converted.codexBody.input
          /\ rng' = converted.rng
    /\ phase' = "selecting"
    /\ UNCHANGED <<isStream, messages, converter, res, twin, fed, codexResponse,
                   usageSink, pending, request, bridge>>
    /\ UNCHANGED <<errorVars, adapterVars, parserVars>>

\* selectAndAuthenticateAccount resolves: the body is adapted, the close
\* listener registered and the upstream request issued
Begin ==
    /\ phase = "selecting"
    /\ bridge' = [bridge EXCEPT
          !.accountId = TRUE,
          !.outbound = <<finalBody(codexRequest[1].codexBody, bridge.accountType,
                                   bridge.isCodexCLI, bridge.adapterConfig)>>,
          !.listeners = @ \cup {"close:onClientClose"}]
    /\ phase' = "posting"
    /\ UNCHANGED <<isStream, messages, input, toolIdMap, converter, res, rng, twin,
                   fed, codexResponse, usageSink, pending, request, codexRequest>>
    /\ UNCHANGED <<errorVars, adapterVars, parserVars>>

\* selectAndAuthenticateAccount rejects: no account (402), no usable token or
\* key (403), or whatever the scheduler and the account services reject with
BeginFails ==
    /\ phase = "selecting"
    /\ \E error \in ServiceErrors : Caught(error)
    /\ UNCHANGED <<isStream, messages, input, toolIdMap, converter, rng, twin, fed,
                   codexResponse, usageSink, pending, upstream, chunks>>
    /\ UNCHANGED <<requestVars, adapterVars, parserVars>>

\* the client's socket closes, at any time from the call of the handler on,
\* also after its return: the listeners attached to 'close' run
ClientCloses ==
    /\ bridge.client = "connected"
    /\ \E destroyed \in BOOLEAN :
          bridge' = [bridge EXCEPT
             !.client = "closed",
             !.closedAt = phase,
             !.resDestroyed = destroyed,
             !.aborted = @ \/ bridge.listeners \cap
                               {"close:onClientClose", "close:cleanup"} # {},
             !.upstreamDestroyed = @ \/ "close:cleanup" \in bridge.listeners]
    /\ phase' = IF "close:cleanup" \in bridge.listeners THEN "done" ELSE phase
    /\ UNCHANGED <<isStream, messages, input, toolIdMap, converter, res, rng, twin,
                   fed, codexResponse, usageSink, pending>>
    /\ UNCHANGED <<errorVars, requestVars, adapterVars, parserVars>>

\* axios.post rejects because the signal was aborted
PostAborted ==
    /\ phase = "posting"
    /\ bridge.aborted
    /\ Caught(CanceledError)
    /\ UNCHANGED <<isStream, messages, input, toolIdMap, converter, rng, twin, fed,
                   codexResponse, usageSink, pending, upstream, chunks>>
    /\ UNCHANGED <<requestVars, adapterVars, parserVars>>

\* axios.post rejects for a transport error or a timeout
PostFails ==
    /\ phase = "posting"
    /\ ~bridge.aborted
    /\ Caught(OtherError(<<>>))
    /\ UNCHANGED <<isStream, messages, input, toolIdMap, converter, rng, twin, fed,
                   codexResponse, usageSink, pending, upstream, chunks>>
    /\ UNCHANGED <<requestVars, adapterVars, parserVars>>

\* axios.post resolves with the upstream's headers; the close listener is removed
PostReturns ==
    /\ phase = "posting"
    /\ ~bridge.aborted
    /\ upstream' \in BridgeUpstreams
    /\ bridge' = [bridge EXCEPT !.listeners = @ \ {"close:onClientClose"}]
    /\ phase' = "received"
    /\ UNCHANGED <<isStream, messages, input, toolIdMap, converter, res, rng, twin,
                   fed, codexResponse, usageSink, pending, chunks, scheduler>>
    /\ UNCHANGED <<requestVars, adapterVars, parserVars>>

\* the scheduler is asked after any status the error handlers leave
clearsOnAnyStatus(up) == TRUE

\* the statuses after which the handler asks the scheduler whether the account
\* is rate limited, to remove the limit
clearsRateLimit(up) == up.status \in {200, 201}

\* the response handling starts: handleStreamResponse sets the SSE headers,
\* builds its converter and, for a success status, registers cleanup on the
\* client request; a status that is no success starts the drain of its body
StartsHandling ==
    LET success == upstream.status \in {200, 201}
    IN /\ phase' = CASE success -> "open"
                      [] isStream -> "drainStream"
                      [] OTHER -> "drainJson"
       /\ converter' = IF isStream THEN NewRun(rng).converter ELSE converter
       /\ rng' = IF isStream THEN NewRun(rng).rng ELSE rng
       /\ bridge' = [bridge EXCEPT
             !.flushed = @ \/ isStream,
             !.listeners = IF isStream /\ success
                           THEN @ \cup {"close:cleanup", "aborted:cleanup"}
                           ELSE @]

\* the status is classified: an error handler starts its drain, a success
\* status has the handler ask the scheduler whether the account is rate
\* limited, any other status starts the response handling
Classify ==
    /\ phase = "received"
    /\ CASE upstream.status = 429 ->
               phase' = "drain429" /\ UNCHANGED <<converter, rng, bridge>>
         [] upstream.status \in {401, 402} ->
               phase' = "drain401" /\ UNCHANGED <<converter, rng, bridge>>
         [] OTHER ->
               IF clearsRateLimit(upstream)
               THEN phase' = "checking" /\ UNCHANGED <<converter, rng, bridge>>
               ELSE StartsHandling
    /\ UNCHANGED <<isStream, messages, input, toolIdMap, res, twin, fed,
                   codexResponse, usageSink, pending, upstream, chunks, scheduler>>
    /\ UNCHANGED <<requestVars, adapterVars, parserVars>>

\* isAccountRateLimited settles: rejected, the catch block answers; reporting
\* a limit, removeAccountRateLimit is called and awaited; reporting none, the
\* response handling starts
LimitChecked ==
    /\ phase = "checking"
    /\ \E rejected \in BOOLEAN :
         IF rejected
         THEN (\E error \in ServiceErrors : Caught(error))
              /\ UNCHANGED <<converter, rng>>
         ELSE IF bridge.rateLimited
              THEN /\ scheduler' = Append(scheduler, [op |-> "removeAccountRateLimit"])
                   /\ bridge' = [bridge EXCEPT !.reported = <<TRUE>>]
                   /\ phase' = "clearing"
                   /\ UNCHANGED <<res, converter, rng>>
              ELSE /\ StartsHandling
                   /\ UNCHANGED <<res, scheduler>>
    /\ UNCHANGED <<isStream, messages, input, toolIdMap, twin, fed,
                   codexResponse, usageSink, pending, upstream, chunks>>
    /\ UNCHANGED <<requestVars, adapterVars, parserVars>>

\* removeAccountRateLimit settles: rejected, the catch block answers;
\* fulfilled, the response handling starts
LimitCleared ==
    /\ phase = "clearing"
    /\ \E rejected \in BOOLEAN :
         IF rejected
         THEN (\E error \in ServiceErrors : Caught(error))
              /\ UNCHANGED <<converter, rng>>
         ELSE StartsHandling /\ UNCHANGED <<res, scheduler>>
    /\ UNCHANGED <<isStream, messages, input, toolIdMap, twin, fed,
                   codexResponse, usageSink, pending, upstream, chunks>>
    /\ UNCHANGED <<requestVars, adapterVars, parserVars>>

Draining == phase \in {"drain429", "drain401", "drainStream", "drainJson"}

\* the drain of an error body: the next chunk is pushed
BridgeDrainData ==
    /\ Draining
    /\ upstream.chunks # <<>>
    /\ chunks' = Append(chunks, Head(upstream.chunks))
    /\ upstream' = [upstream EXCEPT !.chunks = Tail(@)]
    /\ UNCHANGED <<respVars, scheduler, bridge>>
    /\ UNCHANGED <<requestVars, adapterVars, parserVars>>

\* the drain settles: the 429 and the 401/402 handler parse the body, call the
\* scheduler and await it; the handlers of the other statuses answer the client
DrainSettles(settled) ==
    /\ Draining
    /\ \E markThrows \in BOOLEAN :
         LET done ==
               CASE phase = "drain429" ->
                      handleRateLimitError(settled, upstream, chunks, isStream, res,
                                           scheduler)
                 [] phase = "drain401" ->
                      handleUnauthorizedError(settled, upstream, chunks, isStream,
                                              res, scheduler, markThrows)
                 [] phase = "drainStream" ->
                      [res |-> streamUpstreamError(upstream, res),
                       scheduler |-> scheduler]
                 [] OTHER ->
                      [res |-> jsonUpstreamError(upstream, chunks, res),
                       scheduler |-> scheduler]
         IN /\ scheduler' = done.scheduler
            /\ IF phase \in {"drain429", "drain401"}
               THEN /\ res' = res
                    /\ pending' = <<done.res>>
                    /\ phase' = IF phase = "drain429" THEN "marked429" ELSE "marked401"
               ELSE /\ res' = done.res
                    /\ pending' = pending
                    /\ phase' = "done"
    /\ UNCHANGED <<isStream, messages, input, toolIdMap, converter, rng, twin, fed,
                   codexResponse, usageSink, upstream, chunks, bridge>>
    /\ UNCHANGED <<requestVars, adapterVars, parserVars>>

DrainEnds == upstream # <<>> /\ upstream.chunks = <<>> /\ DrainSettles("resolved")
DrainFails == DrainSettles("rejected")
DrainTimesOut == DrainSettles("resolved")

\* handleUnauthorizedError resumes after the scheduler call, fulfilled or
\* rejected, and answers the client
UnauthorizedAnswers ==
    /\ phase = "marked401"
    /\ res' = pending[1]
    /\ pending' = <<>>
    /\ phase' = "done"
    /\ UNCHANGED <<isStream, messages, input, toolIdMap, converter, rng, twin, fed,
                   codexResponse, usageSink>>
    /\ UNCHANGED <<adapterVars, parserVars, requestVars, errorVars, bridge>>

\* markAccountRateLimited settles: fulfilled, handleRateLimitError answers the
\* client; rejected, the rejection leaves the handler, whose await is in no
\* try, and reaches the catch block of the orchestrator
RateLimitAnswers ==
    /\ phase = "marked429"
    /\ \E markThrows \in BOOLEAN :
         IF markThrows
         THEN \E error \in ServiceErrors : Caught(error)
         ELSE /\ res' = pending[1]
              /\ phase' = "done"
              /\ UNCHANGED <<scheduler, bridge>>
    /\ pending' = <<>>
    /\ UNCHANGED <<isStream, messages, input, toolIdMap, converter, rng, twin, fed,
                   codexResponse, usageSink, upstream, chunks>>
    /\ UNCHANGED <<adapterVars, parserVars, requestVars>>

\* an error handler that ends the response without an error event
endWithoutErrorEvent(r, destroyed, src) ==
    IF r.ended \/ destroyed THEN r ELSE [r EXCEPT !.ended = TRUE, !.finals = @ + 1]

\* what the error handler of the converter stream does to the response
errorEventThenEnd(r, destroyed, src) ==
    IF r.ended \/ destroyed THEN r
    ELSE [writeAnthropicSseEvent(r,
             [SseEvent("error", src) EXCEPT
                 !.error = [type |-> "api_error",
                            message |-> "Upstream stream error"]])
          EXCEPT !.ended = TRUE, !.finals = @ + 1]

\* handleStreamResponse, upstream.data.on('error')
StreamError ==
    /\ phase \in {"open", "recording"}
    /\ isStream
    /\ res' = errorEventThenEnd(res, Destroyed, Len(fed) + 1)
    /\ bridge' = [bridge EXCEPT !.upstreamErrored = TRUE]
    /\ phase' = "done"
    /\ UNCHANGED <<isStream, messages, input, toolIdMap, converter, rng, twin, fed,
                   codexResponse, usageSink, pending>>
    /\ UNCHANGED <<adapterVars, parserVars, requestVars, errorVars>>

\* collectCodexStreamAsResponse, upstream.data.on('error'): the promise
\* resolves as on 'end', with what was collected; then the 502 or
\* handleNonStreamResponse
CollectError ==
    /\ phase = "open"
    /\ ~isStream
    /\ CollectResolves(<<>>)
    /\ bridge' = [bridge EXCEPT !.upstreamErrored = TRUE]

NextBridge ==
    \/ Translate
    \/ Begin
    \/ BeginFails
    \/ ClientCloses
    \/ PostAborted
    \/ PostFails
    \/ PostReturns
    \/ Classify
    \/ LimitChecked
    \/ LimitCleared
    \/ BridgeDrainData
    \/ DrainEnds
    \/ DrainFails
    \/ DrainTimesOut
    \/ UnauthorizedAnswers
    \/ RateLimitAnswers
    \/ CatchAnswers
    \/ StreamData(BridgeEvents, MaxFewEvents)
    \/ StreamEnd(BridgeEvents, MaxFewEvents)
    \/ StreamError
    \/ CollectData(BridgeEvents, MaxFewEvents)
    \/ CollectEnd(BridgeEvents, MaxFewEvents)
    \/ CollectError
    \/ UsageSettles

SpecBridge == InitBridge /\ [][NextBridge]_vars

-----------------------------------------------------------------------------
(* Reading the client response *)

Written == res.written

Positions(kind) == { k \in 1..Len(Written) : Written[k].event = kind }

Starts(i) == { k \in Positions("content_block_start") : Written[k].index = i }
Stops(i) == { k \in Positions("content_block_stop") : Written[k].index = i }

BlockIndices ==
    { Written[k].index :
        k \in Positions("content_block_start") \cup Positions("content_block_stop") }

\* C1: content_block_start and content_block_stop pair up: every
\* block index has exactly one start, at most one stop while the request runs
\* and exactly one once it has finished, the start comes before the stop, and
\* a block is stopped before any block of a later index starts.
C1_BlocksPairUp ==
    \A i \in BlockIndices :
        /\ Cardinality(Starts(i)) = 1
        /\ Cardinality(Stops(i)) <= 1
        /\ phase = "done" => Cardinality(Stops(i)) = 1
        /\ \A s \in Starts(i), t \in Stops(i) : s < t
        /\ \A j \in BlockIndices : \A s \in Starts(j) :
              j > i => \E t \in Stops(i) : t < s

\* C2: message_start is written at most once, and it comes before
\* every content_block_start, content_block_delta and content_block_stop.
C2_MessageStartFirst ==
    /\ Cardinality(Positions("message_start")) <= 1
    /\ \A k \in Positions("content_block_start")
              \cup Positions("content_block_delta")
              \cup Positions("content_block_stop") :
          \E m \in Positions("message_start") : m < k

-----------------------------------------------------------------------------
(* Tool ids *)

\* the client ids the request translator left mapped to a call id
MappedClientIds(callId) ==
    { toolIdMap[i].k : i \in { j \in 1..Len(toolIdMap) : toolIdMap[j].v = callId } }

\* the toolu_ ids minted so far
MintedToolu == { TooluId(n) : n \in 0..(rng - 1) }

\* the tool_use blocks written by the streaming converter
StreamToolUses ==
    { k \in Positions("content_block_start") :
        Written[k].content_block.type = "tool_use" }

\* the function_call items of the collected response and the tool_use blocks
\* of the JSON body, both in order
BodyCalls ==
    IF codexResponse = <<>> THEN <<>>
    ELSE SelectSeq(codexResponse[1].output, LAMBDA it : it.type = "function_call")

BodyToolUses ==
    IF res.body = <<>> \/ res.status # 200 THEN <<>>
    ELSE SelectSeq(res.body[1].content, LAMBDA c : c.type = "tool_use")

GoodToolId(id, callId) ==
    /\ id \in MappedClientIds(callId) \cup MintedToolu
    /\ ~Falsy(id)
    /\ id # callId

\* C3: every tool_use block sent to the client, by the streaming converter and
\* by the non-stream translator, carries the client id mapped to the upstream
\* call id or a freshly minted toolu_ id, never an empty id and never the
\* upstream call id; two minted ids never coincide.
C3_ToolUseIds ==
    /\ \A k \in StreamToolUses :
          GoodToolId(Written[k].content_block.id, fed[Written[k].src].item.call_id)
    /\ \A k, l \in StreamToolUses :
          (k # l /\ Written[k].content_block.id \in MintedToolu)
             => Written[k].content_block.id # Written[l].content_block.id
    /\ Len(BodyToolUses) = IF res.status = 200 THEN Len(BodyCalls) ELSE 0
    /\ \A j \in 1..Len(BodyToolUses) :
          GoodToolId(BodyToolUses[j].id, BodyCalls[j].call_id)

\* C3 witness: the streaming converter has sent a tool_use under the client id
\* mapped to its call id, and one under a minted id for a function_call that
\* carried no call_id
C3_Witness ==
    /\ \E k \in StreamToolUses :
          /\ Written[k].content_block.id = "toolu_A"
          /\ fed[Written[k].src].item.call_id \in { CallId(n) : n \in 0..MaxBlocks }
    /\ \E k \in StreamToolUses :
          /\ Written[k].content_block.id \in MintedToolu
          /\ fed[Written[k].src].item.call_id = Undefined

\* the assignments toolIdMap.set(clientId, callId) of request translation: the
\* k-th assistant tool_use and the k-th function_call input item
TranslatedToolUses ==
    SelectSeq(messages, LAMBDA m : m.role = "assistant" /\ m.block.type = "tool_use")

TranslatedCalls == SelectSeq(input, LAMBDA it : it.type = "function_call")

\* C4: whenever the translator assigned toolIdMap[clientId] =
\* callId for a tool_use that has an id, every upstream function_call with that
\* call id reaches the client as a tool_use whose id is clientId, in stream
\* mode and in the JSON body.
C4_MappedBack ==
    \A a \in 1..Len(TranslatedCalls) :
        LET clientId == TranslatedToolUses[a].block.id
            callId == TranslatedCalls[a].call_id
        IN ~Falsy(clientId) =>
              /\ \A k \in StreamToolUses :
                    fed[Written[k].src].item.call_id = callId
                       => Written[k].content_block.id = clientId
              /\ \A j \in 1..Len(BodyToolUses) :
                    BodyCalls[j].call_id = callId => BodyToolUses[j].id = clientId

-----------------------------------------------------------------------------
(* Usage *)

Completions == { k \in 1..Len(fed) : fed[k].type = "response.completed" }

Tokens(o) == IF o = <<>> THEN 0 ELSE o[1]

\* what the claim expects for an upstream usage payload, net input first
NetInput(u) == Tokens(u.input_tokens) - Tokens(u.cached_tokens)

UsageReported(net, out, cacheRead, cacheCreate, u) ==
    /\ net = NetInput(u)
    /\ out = Tokens(u.output_tokens)
    /\ cacheRead = Tokens(u.cached_tokens)
    /\ cacheCreate = 0

\* the payload whose tallies reach recordUsage: the last completed response
SinkPayload ==
    IF isStream
    THEN fed[CHOOSE k \in Completions : \A l \in Completions : l <= k].response.usage
    ELSE codexResponse[1].usage

UsageAsReported ==
    /\ \A k \in Positions("message_delta") :
          LET w == Written[k].usage
          IN UsageReported(w.input_tokens, w.output_tokens,
                           w.cache_read_input_tokens, w.cache_creation_input_tokens,
                           fed[Written[k].src].response.usage)
    /\ res.status = 200 =>
          LET b == res.body[1].usage
          IN UsageReported(b.input_tokens, b.output_tokens,
                           b.cache_read_input_tokens, b.cache_creation_input_tokens,
                           codexResponse[1].usage)
    /\ \A n \in 1..Len(usageSink) :
          UsageReported(usageSink[n].inputTokens, usageSink[n].outputTokens,
                        usageSink[n].cacheReadTokens, usageSink[n].cacheCreateTokens,
                        SinkPayload)

\* every net input figure that left the bridge
NetInputsReported ==
    { Written[k].usage.input_tokens : k \in Positions("message_delta") }
    \cup (IF res.status = 200 THEN { res.body[1].usage.input_tokens } ELSE {})
    \cup { usageSink[n].inputTokens : n \in 1..Len(usageSink) }

\* C5: the net input tokens reported to the client and to the
\* usage sink equal input_tokens - cached_tokens and are non-negative;
\* cache_read equals cached_tokens and cache_creation is 0.
C5_NetInputNonNegative ==
    /\ UsageAsReported
    /\ \A n \in NetInputsReported : n >= 0

-----------------------------------------------------------------------------
(* Two runs of the converter *)

\* an event with the identifiers minted by its run blanked; a run mints from
\* lo up to, not including, hi
Masked(w, lo, hi) ==
    [w EXCEPT
        !.message_id =
            IF @ \in { MsgId(n) : n \in lo..(hi - 1) } THEN "msg_*" ELSE @,
        !.content_block.id =
            IF @ \in { TooluId(n) : n \in lo..(hi - 1) } THEN "toolu_*" ELSE @]

\* the first values the two runs draw: the translator drew one per tool_use
FirstSeed == Len(TranslatedCalls)
TwinSeed == FirstSeed + MaxEvents + 2

\* the stop reason the rule gives for a completed response
RuleStopReason(response) ==
    IF \E i \in 1..Len(response.output) : response.output[i].type = "function_call"
    THEN "tool_use"
    ELSE IF response.status = "incomplete"
            /\ response.incomplete_reason = "max_output_tokens"
    THEN "max_tokens"
    ELSE "end_turn"

\* the upstream events whose handling sends message_start when none was sent
OpensMessage(e) ==
    e.type \in {"response.created", "response.output_item.added",
                "response.reasoning_summary_part.added",
                "response.content_part.added"}

\* the upstream events that close the open content block
ClosesBlock(e) ==
    \/ e.type \in {"response.reasoning_summary_part.done",
                   "response.content_part.done"}
    \/ e.type = "response.output_item.done" /\ e.item.type = "function_call"

\* the index of the block open when the i-th upstream event arrives: one block
\* was closed by each closing event before it
IndexAt(events, i) == Cardinality({ j \in 1..(i - 1) : ClosesBlock(events[j]) })

\* the client's id for an upstream call id: the first key of the map holding
\* it, "toolu_*" for an id the converter has to mint
ClientToolId(map, callId) ==
    LET holders == { j \in 1..Len(map) : map[j].v = callId }
    IN IF holders = {} THEN "toolu_*"
       ELSE map[CHOOSE j \in holders : \A h \in holders : j <= h].k

\* the payload type of the delta an upstream delta event turns into
DeltaTypeOf(e) ==
    CASE e.type = "response.reasoning_summary_text.delta" -> "thinking_delta"
      [] e.type = "response.output_text.delta" -> "text_delta"
      [] e.type = "response.function_call_arguments.delta" -> "input_json_delta"
      [] OTHER -> Undefined

\* the usage of message_delta, from the usage object of the completed response
RuleUsage(usage) ==
    LET present(o) == IF o = <<>> THEN 0 ELSE o[1]
    IN [input_tokens |-> present(usage.input_tokens) - present(usage.cached_tokens),
        output_tokens |-> present(usage.output_tokens),
        cache_creation_input_tokens |-> 0,
        cache_read_input_tokens |-> present(usage.cached_tokens)]

\* the events the i-th upstream event of a sequence stands for, read off the
\* sequence and the map alone, with "msg_*" and "toolu_*" for minted ids
EventsFor(events, map, i) ==
    LET e == events[i]
        blank(kind) ==
            [event |-> kind, index |-> -1,
             content_block |-> [type |-> Undefined, id |-> Undefined, name |-> Undefined],
             delta |-> [type |-> Undefined, text |-> ""],
             stop_reason |-> Undefined,
             usage |-> [input_tokens |-> 0, output_tokens |-> 0,
                        cache_creation_input_tokens |-> 0,
                        cache_read_input_tokens |-> 0],
             message_id |-> Undefined,
             error |-> [type |-> Undefined, message |-> Undefined], src |-> i]
        start(type, id, name) ==
            <<[blank("content_block_start") EXCEPT
                  !.index = IndexAt(events, i),
                  !.content_block = [type |-> type, id |-> id, name |-> name]]>>
        opening ==
            IF OpensMessage(e) /\ \A j \in 1..(i - 1) : ~OpensMessage(events[j])
            THEN <<[blank("message_start") EXCEPT !.message_id = "msg_*"]>>
            ELSE <<>>
        own ==
            CASE e.type = "response.output_item.added" /\ e.item.type = "function_call" ->
                   start("tool_use", ClientToolId(map, e.item.call_id),
                         IF e.item.name = Undefined THEN "" ELSE e.item.name)
              [] e.type = "response.reasoning_summary_part.added" ->
                   start("thinking", Undefined, Undefined)
              [] e.type = "response.content_part.added" /\ e.part.type = "output_text" ->
                   start("text", Undefined, Undefined)
              [] DeltaTypeOf(e) # Undefined /\ e.delta \notin {Undefined, ""} ->
                   <<[blank("content_block_delta") EXCEPT
                         !.index = IndexAt(events, i),
                         !.delta = [type |-> DeltaTypeOf(e), text |-> e.delta]]>>
              [] ClosesBlock(e) ->
                   <<[blank("content_block_stop") EXCEPT !.index = IndexAt(events, i)]>>
              [] e.type = "response.completed" ->
                   <<[blank("message_delta") EXCEPT
                         !.stop_reason = RuleStopReason(e.response),
                         !.usage = RuleUsage(e.response.usage)],
                     blank("message_stop")>>
              [] OTHER -> <<>>
    IN opening \o own

\* the events a sequence of upstream events stands for, from the i-th on
RECURSIVE EventsFrom(_, _, _)
EventsFrom(events, map, i) ==
    IF i > Len(events) THEN <<>>
    ELSE EventsFor(events, map, i) \o EventsFrom(events, map, i + 1)

\* the events written, with the ids this run minted blanked
WrittenMasked == [k \in 1..Len(Written) |-> Masked(Written[k], FirstSeed, rng)]

\* C6: the events written to the client are a function of the upstream events
\* fed so far and of the toolIdMap, apart from the ids the run minted: each
\* upstream event stands for the events the rule gives it, in the order of the
\* upstream events; and a second run on the same events, minting other ids,
\* writes the same events apart from those ids.
C6_Deterministic ==
    /\ isStream => WrittenMasked = EventsFrom(fed, toolIdMap, 1)
    /\ Len(twin.res.written) = Len(Written)
    /\ \A k \in 1..Len(Written) :
          WrittenMasked[k] = Masked(twin.res.written[k], TwinSeed, twin.rng)
    /\ \A k \in 1..Len(Written) : Written[k].src \in 1..Len(fed)
    /\ \A k, l \in 1..Len(Written) : k < l => Written[k].src <= Written[l].src

\* C6 witness: both runs minted a tool id, the ids differ, and events of three
\* upstream events have been written
C6_Witness ==
    /\ \E k \in StreamToolUses :
          /\ Written[k].content_block.id \in MintedToolu
          /\ Written[k].content_block.id # twin.res.written[k].content_block.id
    /\ { Written[k].src : k \in 1..Len(Written) } = {1, 2, 3}
    /\ Positions("message_delta") # {}

-----------------------------------------------------------------------------
(* Reading the adapter's calls *)

AdapterCalled == adaptPhase \in {"returned", "again"}

Settings ==
    resolveAdapterConfig(adaptArgs.adapterConfig, adaptArgs.defaultInstructionsText)

\* the result reports a change
ReportsChange(result) ==
    \/ Len(result.changes.strippedFields) > 0
    \/ result.changes.instructions # NoInstructionChange

\* the body handed to the first call, as it was at that call
FirstInput == inputBefore[1]

\* C7: in every call of the adapter the object passed as body has, after the
\* call, the properties and values it had before it; and when the result
\* reports stripped fields or an instruction change, the returned body is
\* another object than the one passed in.
C7_InputNotMutated ==
    AdapterCalled =>
        /\ \A i \in 1..Len(inputBefore) :
              heap[inputBefore[i].ref] = inputBefore[i].fields
        /\ adaptArgs.body # 0 /\ ReportsChange(adaptResult[1]) =>
              adaptResult[1].body # adaptArgs.body

\* a call that stripped a field and overwrote the instructions has returned
C7_Witness ==
    /\ adaptPhase = "returned"
    /\ adaptArgs.body # 0
    /\ "temperature" \in DOMAIN FirstInput.fields
    /\ "temperature" \in { adaptResult[1].changes.strippedFields[i] :
                             i \in 1..Len(adaptResult[1].changes.strippedFields) }
    /\ adaptResult[1].changes.instructions.mode = "overwrite"
    /\ Read(FirstInput.fields, "instructions") = Str("C")
    /\ Read(heap[adaptResult[1].body], "instructions") = Str("S")

\* what the first call returned equals what it was given
FirstBodyUntouched ==
    IF inputBefore = <<>>
    THEN firstResult[1].body = 0
    ELSE heap[firstResult[1].body] = FirstInput.fields

\* C8: a call for a Codex CLI client whose config resolves applyWhen to
\* non_codex returns a body with the properties of the input, applied false,
\* no stripped field and no instruction change.
C8_CliUntouched ==
    /\ AdapterCalled
    /\ adaptArgs.isCodexCLI
    /\ Settings.instructions.applyWhen = "non_codex"
    => /\ FirstBodyUntouched
       /\ firstResult[1].applied = FALSE
       /\ firstResult[1].changes = NoChanges

\* a CLI call under an enabled overwrite config, on a body with instructions
\* and a field the config would strip from another client
C8_Witness ==
    /\ adaptPhase = "returned"
    /\ adaptArgs.isCodexCLI
    /\ Settings.enabled
    /\ Settings.stripFields.enabled
    /\ Settings.instructions.applyWhen = "non_codex"
    /\ Settings.instructions.mode = "overwrite"
    /\ Settings.instructions.text = Str("S")
    /\ inputBefore # <<>>
    /\ "temperature" \in DOMAIN FirstInput.fields
    /\ Read(FirstInput.fields, "instructions") = Str("C")
    /\ firstResult[1].applied = FALSE

\* under settings st the first call took the prepend branch on non-blank
\* client instructions
PrependCaseOf(st) ==
    /\ inputBefore # <<>>
    /\ st.enabled
    /\ st.instructions.mode = "prepend"
    /\ st.instructions.applyWhen = "all" \/ ~adaptArgs.isCodexCLI
    /\ isNonEmptyString(st.instructions.text)
    /\ isNonEmptyString(Read(FirstInput.fields, "instructions"))

PrependCase == PrependCaseOf(Settings)

ServerText == Settings.instructions.text.str
ClientText == Read(FirstInput.fields, "instructions").str
FirstInstructions == Read(heap[firstResult[1].body], "instructions")
SecondInstructions == Read(heap[adaptResult[1].body], "instructions")

\* the second call leaves the first call's instructions and says so
SecondCallIdempotent ==
    adaptPhase = "again" =>
        /\ SecondInstructions = FirstInstructions
        /\ adaptResult[1].changes.instructions.mode = "prepend"
        /\ adaptResult[1].changes.instructions.alreadyPresent = "true"

\* C9 as stated: under prepend with server text S and non-blank client
\* instructions C the result is C when C starts with S and S, a blank line, C
\* otherwise; a second call leaves it and reports alreadyPresent true.
C9_PrependAsStated ==
    AdapterCalled =>
        LET st == Settings
            S == st.instructions.text.str
            C == ClientText
        IN PrependCaseOf(st) =>
              /\ FirstInstructions =
                    IF startsWith(C, S) THEN Str(C) ELSE Str(S \o "\n\n" \o C)
              /\ SecondCallIdempotent

\* C9: under prepend with server text S and non-blank client instructions C
\* the result is C when C, or C without its leading white space, starts with
\* S, and S, a blank line, C otherwise; a second call leaves it and reports
\* alreadyPresent true.
C9_PrependIdempotent ==
    AdapterCalled =>
        LET st == Settings
            S == st.instructions.text.str
            C == ClientText
        IN PrependCaseOf(st) =>
              /\ FirstInstructions =
                    IF startsWith(C, S) \/ startsWith(trimStart(C), S)
                    THEN Str(C)
                    ELSE Str(S \o "\n\n" \o C)
              /\ SecondCallIdempotent

\* S was put before C by the first call and found there by the second
C9_Witness ==
    /\ adaptPhase = "again"
    /\ PrependCase
    /\ ServerText = "S"
    /\ ClientText = "C"
    /\ FirstInstructions = Str("S\n\nC")
    /\ SecondInstructions = Str("S\n\nC")
    /\ firstResult[1].changes.instructions.alreadyPresent = "false"
    /\ adaptResult[1].changes.instructions.alreadyPresent = "true"

-----------------------------------------------------------------------------
(* Reading the parser's result *)

Reattached == parsed[1].actualModel \o "-" \o parsed[1].reasoningEffort

EffortRecognised == parsed # <<>> /\ parsed[1].reasoningEffort # Undefined

\* C10 as stated: when an effort is recognised, actualModel, a dash and the
\* effort make the original model string.
C10_RoundTripAsStated == EffortRecognised => Reattached = modelName

\* C10: when an effort is recognised, it is a known effort, actualModel is the
\* original up to its last dash, and actualModel, a dash and the effort make
\* the original with its last segment in lower case; they make the original
\* itself exactly when that segment was written in lower case.
C10_RoundTrip ==
    EffortRecognised =>
        LET tail == SubSeq(modelName, Len(parsed[1].actualModel) + 2, Len(modelName))
        IN /\ parsed[1].reasoningEffort \in KNOWN_REASONING_EFFORTS
           /\ parsed[1].actualModel # ""
           /\ Len(Reattached) = Len(modelName)
           /\ parsed[1].actualModel \o "-" \o tail = modelName
           /\ parsed[1].reasoningEffort = toLowerCase(tail)
           /\ (Reattached = modelName) <=> (tail = toLowerCase(tail))

\* a name that ends in a known effort has been parsed
C10_Witness ==
    /\ modelName = "gpt-5.2-codex-high"
    /\ EffortRecognised
    /\ parsed[1].actualModel = "gpt-5.2-codex"
    /\ parsed[1].reasoningEffort = "high"

-----------------------------------------------------------------------------
(* Reading the converted request *)

Converted == codexRequest # <<>>

Msgs == request.body.messages
Items == codexRequest[1].codexBody.input

\* the block is one the translator turns into an input item
Produces(m) ==
    \/ m.role = "user" /\ m.block.type \in {"text", "tool_result"}
    \/ m.role = "assistant" /\ m.block.type \in {"text", "tool_use"}

\* where the item of block j is in input
ItemOf(j) == Cardinality({ k \in 1..j : Produces(Msgs[k]) })

IsToolUse(i, id) ==
    Msgs[i].role = "assistant" /\ Msgs[i].block.type = "tool_use" /\ Msgs[i].block.id = id

IsToolResult(j, id) ==
    Msgs[j].role = "user" /\ Msgs[j].block.type = "tool_result"
    /\ Msgs[j].block.tool_use_id = id

\* block i is a tool_use and block j the tool_result that answers it: no
\* tool_use under the same id lies between them
Answers(i, j) ==
    /\ i < j
    /\ Msgs[i].block.type = "tool_use"
    /\ IsToolUse(i, Msgs[i].block.id)
    /\ IsToolResult(j, Msgs[i].block.id)
    /\ \A k \in (i + 1)..(j - 1) : ~IsToolUse(k, Msgs[i].block.id)

MintedCallIds == { CallId(n) : n \in 0..Len(Msgs) }

\* C11: for an assistant tool_use with id I and the user tool_result with
\* tool_use_id I that answers it, input holds the function_call of the one and,
\* after it, the function_call_output of the other; the two carry the same
\* call_id, which is a minted call_ id and not I, and no other function_call
\* carries it.
C11_ToolPairTranslated ==
    Converted =>
        /\ Len(Items) = ItemOf(Len(Msgs))
        /\ \A i, j \in 1..Len(Msgs) :
              Answers(i, j) =>
                 LET call == Items[ItemOf(i)]
                     output == Items[ItemOf(j)]
                 IN /\ ItemOf(i) < ItemOf(j)
                    /\ call.type = "function_call"
                    /\ output.type = "function_call_output"
                    /\ call.call_id = output.call_id
                    /\ call.call_id \in MintedCallIds
                    /\ call.call_id # Msgs[i].block.id
                    /\ \A x \in 1..Len(Items) :
                          Items[x].type = "function_call"
                          /\ Items[x].call_id = call.call_id => x = ItemOf(i)

\* a tool_use and its tool_result have been translated, after a thinking block
\* that yields no item
C11_Witness ==
    /\ Converted
    /\ Msgs = <<Thinking, ToolUse("toolu_A"), ToolResult("toolu_A")>>
    /\ Len(Items) = 2
    /\ Items[1].type = "function_call"
    /\ Items[1].call_id = CallId(0)
    /\ Items[2].type = "function_call_output"
    /\ Items[2].call_id = CallId(0)

CodexBody == codexRequest[1].codexBody

\* the effort the budget of an enabled thinking stands for
BudgetEffort(budget) == IF budget <= 20000 THEN "medium" ELSE "high"

\* C12: the reasoning effort of the outbound body is the effort parsed from the
\* model name when there is one; otherwise, when thinking.type is enabled and
\* budget_tokens is present, medium for a budget up to 20000 and high from
\* 20001 on; otherwise medium.
C12_EffortSelection ==
    Converted =>
        LET suffix == parseModelWithReasoning(request.baseModel).reasoningEffort
            thinking == request.body.thinking
        IN /\ CodexBody.reasoning # <<>>
           /\ CodexBody.reasoning[1].effort =
                 IF suffix # Undefined THEN suffix
                 ELSE IF /\ thinking # <<>>
                         /\ thinking[1].type = "enabled"
                         /\ thinking[1].budget_tokens # <<>>
                 THEN BudgetEffort(thinking[1].budget_tokens[1])
                 ELSE "medium"

\* a suffix low has overridden a budget that stands for high
C12_Witness ==
    /\ Converted
    /\ request.baseModel = "gpt-5-LOW"
    /\ request.body.thinking = <<[type |-> "enabled", budget_tokens |-> <<20001>>]>>
    /\ CodexBody.model = "gpt-5"
    /\ CodexBody.reasoning[1].effort = "low"

\* the tool_choice the table of conversions gives; what the table does not
\* list is omitted
TableChoice(choice) ==
    IF choice = ToolChoiceString("auto") THEN ToolChoiceString("auto")
    ELSE IF choice = ToolChoiceString("none") THEN ToolChoiceString("none")
    ELSE IF choice = ToolChoiceString("any") THEN ToolChoiceString("required")
    ELSE IF choice.kind = "object" /\ choice.type = "auto" THEN ToolChoiceString("auto")
    ELSE IF choice.kind = "object" /\ choice.type = "any"
    THEN ToolChoiceString("required")
    ELSE IF choice.kind = "object" /\ choice.type = "tool"
            /\ choice.name \notin {Undefined, ""}
    THEN ToolChoiceObject("function", choice.name)
    ELSE NoToolChoice

\* C13: auto and none pass, any becomes required, {type: auto} becomes auto,
\* {type: any} becomes required, {type: tool, name} becomes {type: function,
\* name}, and every other tool_choice is omitted.
C13_ToolChoice ==
    Converted => CodexBody.tool_choice = TableChoice(request.body.tool_choice)

FirstOutput == heap[firstResult[1].body]

\* the configured fields the first input has, in the configured order
ConfiguredPresent ==
    LET present(f) == f \in DOMAIN FirstInput.fields
    IN SelectSeq(Settings.stripFields.fields, present)

Listed(fields) == { fields[i] : i \in 1..Len(fields) }

\* a CLI call drops no field and lists none
CliKeepsFields ==
    adaptArgs.isCodexCLI =>
        /\ DOMAIN FirstInput.fields \subseteq DOMAIN FirstOutput
        /\ firstResult[1].changes.strippedFields = <<>>

\* C14 as stated: a CLI call drops no field under any config; a call for
\* another client with stripFields enabled returns a body without the
\* configured fields the input had and lists them in the configured order.
C14_StripAsStated ==
    AdapterCalled /\ inputBefore # <<>> =>
        /\ CliKeepsFields
        /\ ~adaptArgs.isCodexCLI /\ Settings.stripFields.enabled =>
              /\ firstResult[1].changes.strippedFields = ConfiguredPresent
              /\ \A f \in Listed(ConfiguredPresent) : f \notin DOMAIN FirstOutput

\* C14: a CLI call drops no field under any config; a call for another client
\* with the adapter and stripFields enabled lists the configured fields the
\* input had in the configured order and returns a body without them, except
\* instructions when the instruction step has set it again; every other call
\* drops and lists nothing.
C14_StripOnlyNonCli ==
    AdapterCalled /\ inputBefore # <<>> =>
        /\ CliKeepsFields
        /\ IF ~adaptArgs.isCodexCLI /\ Settings.enabled /\ Settings.stripFields.enabled
           THEN /\ firstResult[1].changes.strippedFields = ConfiguredPresent
                /\ \A f \in Listed(ConfiguredPresent) :
                      \/ f \notin DOMAIN FirstOutput
                      \/ /\ f = "instructions"
                         /\ firstResult[1].changes.instructions # NoInstructionChange
                /\ \A f \in DOMAIN FirstInput.fields \ Listed(ConfiguredPresent) :
                      f \in DOMAIN FirstOutput
           ELSE /\ firstResult[1].changes.strippedFields = <<>>
                /\ DOMAIN FirstInput.fields \subseteq DOMAIN FirstOutput

\* two default fields were stripped for another client, in the order of the
\* default list, and a field outside the list was kept
C14_Witness ==
    /\ adaptPhase = "returned"
    /\ inputBefore # <<>>
    /\ ~adaptArgs.isCodexCLI
    /\ DOMAIN FirstInput.fields = {"max_output_tokens", "temperature", "foo", "instructions"}
    /\ firstResult[1].changes.strippedFields = <<"temperature", "max_output_tokens">>
    /\ DOMAIN FirstOutput = {"foo", "instructions"}

\* under settings st the first call reached the branch of mode none
NoneCaseOf(st) ==
    /\ inputBefore # <<>>
    /\ st.enabled
    /\ st.instructions.mode = "none"
    /\ st.instructions.applyWhen = "all" \/ ~adaptArgs.isCodexCLI
    /\ isNonEmptyString(st.instructions.text)

\* what mode none does to instructions that are absent, blank or no string
NoneFallback(st) ==
    /\ Read(FirstOutput, "instructions") = st.instructions.text
    /\ firstResult[1].changes.instructions =
          [mode |-> "none", alreadyPresent |-> Undefined,
           clientMissing |-> "true", fallback |-> "true"]
    /\ firstResult[1].applied

\* C15: in mode none, with the scope allowing it and a non-blank
\* server text, blank or absent client instructions are set to the server text
\* with fallback true; non-blank client instructions are in the returned body
\* unchanged and no instruction change is recorded.
C15_ModeNoneAsStated ==
    AdapterCalled =>
        LET st == Settings
            client == Read(FirstInput.fields, "instructions")
        IN NoneCaseOf(st) =>
              IF isNonEmptyString(client)
              THEN /\ firstResult[1].changes.instructions = NoInstructionChange
                   /\ Read(FirstOutput, "instructions") = client
              ELSE NoneFallback(st)

\* what the adapter does in mode none, the scope allowing it and the server
\* text non-blank: instructions absent, blank or no string are set to the server text
\* and the change is annotated mode none, clientMissing, fallback; non-blank
\* client instructions are not touched by the instruction step and no
\* instruction change is recorded, while field stripping applies as in any
\* other mode (the field instructions itself is dropped when it is stripped).
C15_ModeNone ==
    AdapterCalled =>
        LET st == Settings
            client == Read(FirstInput.fields, "instructions")
            stripped == firstResult[1].changes.strippedFields
        IN NoneCaseOf(st) =>
              /\ stripped =
                    IF ~adaptArgs.isCodexCLI /\ st.stripFields.enabled
                    THEN ConfiguredPresent ELSE <<>>
              /\ IF isNonEmptyString(client)
                 THEN /\ firstResult[1].changes.instructions = NoInstructionChange
                      /\ Read(FirstOutput, "instructions") =
                            IF "instructions" \in Listed(stripped) THEN Undef ELSE client
                      /\ HasOwn(FirstOutput, "instructions")
                            <=> "instructions" \notin Listed(stripped)
                      /\ firstResult[1].applied <=> stripped # <<>>
                 ELSE NoneFallback(st)

\* blank client instructions were replaced by the server text in mode none
C15_Witness ==
    /\ adaptPhase = "returned"
    /\ NoneCaseOf(Settings)
    /\ Read(FirstInput.fields, "instructions") = Str(" ")
    /\ Read(FirstOutput, "instructions") = Str("S")
    /\ firstResult[1].changes.instructions.fallback = "true"

\* C16: every call returns applied true exactly when it lists a stripped field
\* or records an instruction change; a call on a body that is no object, or
\* with the adapter disabled, returns the body it was given, applied false and
\* no change.
C16_AppliedIffChanged ==
    AdapterCalled =>
        /\ adaptResult[1].applied <=> ReportsChange(adaptResult[1])
        /\ adaptArgs.body = 0 \/ ~Settings.enabled =>
              /\ adaptResult[1].body = adaptArgs.body
              /\ adaptResult[1].applied = FALSE
              /\ adaptResult[1].changes = NoChanges

\* a CLI call under applyWhen all stripped nothing, overwrote the instructions
\* and returned applied true
C16_Witness ==
    /\ adaptPhase = "returned"
    /\ adaptArgs.isCodexCLI
    /\ adaptArgs.body # 0
    /\ adaptResult[1].changes.strippedFields = <<>>
    /\ adaptResult[1].changes.instructions.mode = "overwrite"
    /\ adaptResult[1].applied


-----------------------------------------------------------------------------
(* C17 *)

\* the message_delta events written while handling the k-th upstream event
DeltasOf(k) ==
    { i \in 1..Len(Written) : Written[i].event = "message_delta" /\ Written[i].src = k }

\* the non-stream side has answered with a translated body
Answered == twin.res.status = 200 /\ twin.res.body # <<>>

\* C17: at response.completed the stop reason is tool_use as soon as one output
\* item is a function_call, else max_tokens for status incomplete with reason
\* max_output_tokens, else end_turn; in the message_delta of stream mode and in
\* the JSON body of non-stream mode alike.
C17_StopReason ==
    /\ \A k \in 1..Len(fed) :
          fed[k].type = "response.completed" =>
             /\ DeltasOf(k) # {}
             /\ \A i \in DeltasOf(k) :
                   Written[i].stop_reason = RuleStopReason(fed[k].response)
    /\ Answered =>
          twin.res.body[1].stop_reason = RuleStopReason(twin.codexResponse[1])

\* an incomplete response with a function_call was handled in both modes
C17_Witness ==
    /\ phase = "done"
    /\ Answered
    /\ twin.codexResponse[1].status = "incomplete"
    /\ twin.codexResponse[1].incomplete_reason = "max_output_tokens"
    /\ Len(twin.codexResponse[1].output) = 2
    /\ twin.res.body[1].stop_reason = "tool_use"
    /\ \E i \in 1..Len(Written) :
          Written[i].event = "message_delta" /\ Written[i].stop_reason = "tool_use"


-----------------------------------------------------------------------------
(* C18 *)

\* the kinds of the events written, in order
WrittenKinds == [i \in 1..Len(Written) |-> Written[i].event]

\* C18: fed the tool call of ScenarioD with an empty toolIdMap, the converter
\* writes exactly message_start, content_block_start (index 0, tool_use, a
\* minted toolu_ id, name run), the two input_json_delta of index 0 in order,
\* content_block_stop (index 0), message_delta (tool_use, usage 60/20/40/0) and
\* message_stop.
C18_ScenarioD ==
    fed = ScenarioD =>
       /\ toolIdMap = <<>>
       /\ WrittenKinds = << "message_start", "content_block_start",
                            "content_block_delta", "content_block_delta",
                            "content_block_stop", "message_delta", "message_stop" >>
       /\ Written[2].index = 0
       /\ Written[2].content_block.type = "tool_use"
       /\ \E n \in 0..rng : Written[2].content_block.id = TooluId(n)
       /\ Written[2].content_block.name = "run"
       /\ Written[3].index = 0
       /\ Written[3].delta = [type |-> "input_json_delta", text |-> "{\"x\""]
       /\ Written[4].index = 0
       /\ Written[4].delta = [type |-> "input_json_delta", text |-> ":1}"]
       /\ Written[5].index = 0
       /\ Written[6].stop_reason = "tool_use"
       /\ Written[6].usage =
             [input_tokens |-> 60, output_tokens |-> 20,
              cache_creation_input_tokens |-> 0, cache_read_input_tokens |-> 40]

\* the whole tool call went through the converter and the stream ended
C18_Witness ==
    /\ fed = ScenarioD
    /\ phase = "done"
    /\ Len(Written) = 7
    /\ res.ended


-----------------------------------------------------------------------------
(* C19 *)

\* the positions of the message_delta events written
Deltas == { i \in 1..Len(Written) : Written[i].event = "message_delta" }

\* the message_delta written last
LastDelta == Written[CHOOSE i \in Deltas : \A j \in Deltas : j <= i]

\* C19: once the upstream stream has ended, the JSON body of non-stream mode
\* carries the stop reason and the usage of the last message_delta of stream
\* mode, and both modes have handed the same records to recordUsage.
C19_ModesAgree ==
    phase = "done" =>
       /\ usageSink = twin.usageSink
       /\ Answered =>
             /\ Deltas # {}
             /\ twin.res.body[1].stop_reason = LastDelta.stop_reason
             /\ twin.res.body[1].usage = LastDelta.usage

\* both modes answered a completed response with cached tokens and recorded it
C19_Witness ==
    /\ phase = "done"
    /\ Answered
    /\ twin.res.body[1].usage.cache_read_input_tokens = 40
    /\ twin.res.body[1].usage.input_tokens = 60
    /\ Len(usageSink) = 1
    /\ Len(twin.usageSink) = 1


-----------------------------------------------------------------------------
(* C20 *)

\* the body the drain has collected, parsed when it is JSON
DrainedData == IF upstream.readable THEN parseJson(concat(chunks)) ELSE upstream.data

\* the payload of the client-facing error
ErrorPayloads ==
    { [type |-> "rate_limit_error", message |-> m] :
        m \in { "slow down", "Rate limit reached" } }

\* C20: after an upstream 429, however the drain of its body ended,
\* markAccountRateLimited has been called exactly once, with the
\* error.resets_in_seconds of the body when the body holds one and null
\* otherwise; a non-stream client has HTTP 429 with a JSON rate_limit_error, a
\* stream client one SSE error event with that payload and the end of the
\* response; no converter event was written and no usage recorded.
C20_RateLimitSurfaced ==
    phase = "done" /\ upstream # <<>> =>
       /\ scheduler = << [op |-> "markAccountRateLimited",
                          resetsAfter |-> errorOf(DrainedData).resets_in_seconds] >>
       /\ res.ended
       /\ IF isStream
          THEN /\ Len(Written) = 1
               /\ Written[1].event = "error"
               /\ Written[1].error \in ErrorPayloads
          ELSE /\ res.status = 429
               /\ Written = <<>>
               /\ res.body[1].type = "error"
               /\ res.body[1].error \in ErrorPayloads
       /\ usageSink = <<>>

\* what holds of C20: markAccountRateLimited is called exactly once on every
\* path, first of all calls, and unless that call rejects (the catch block
\* then answers with a status of its own) the client has the rate_limit_error
\* as stated
C20_SurfacedWhenMarked ==
    phase = "done" /\ upstream # <<>> =>
       /\ { i \in 1..Len(scheduler) : scheduler[i].op = "markAccountRateLimited" } = {1}
       /\ res.ended
       /\ usageSink = <<>>
       /\ res.status \in {0, 429} =>
             IF isStream
             THEN /\ Len(Written) = 1
                  /\ Written[1].event = "error"
                  /\ Written[1].error \in ErrorPayloads
             ELSE /\ res.status = 429
                  /\ Written = <<>>
                  /\ res.body[1].type = "error"
                  /\ res.body[1].error \in ErrorPayloads

\* the scheduler call rejected and the catch block answered 500
C20_WitnessRejected == phase = "done" /\ upstream # <<>> /\ res.status = 500

\* the scheduler call rejected with status 401: the catch block marked the
\* account unauthorized and answered 401
C20_WitnessUnauthorized ==
    /\ phase = "done"
    /\ res.status = 401
    /\ Len(scheduler) = 2
    /\ scheduler[2].op = "markAccountUnauthorized"
    /\ scheduler[2].reason = "Codex bridge error: failed"


-----------------------------------------------------------------------------
(* C27 *)

System == request.body.system

\* a part of kind text whose text, as it stands, starts with neither literal
keepsUntrimmed(item) ==
    /\ item.type = "text"
    /\ item.text.isString
    /\ ~startsWith(item.text.str, BILLING_HEADER)
    /\ ~startsWith(item.text.str, SYSTEM_REMINDER)

\* the texts of the parts of kind text that do not start with a filtered
\* literal, in order, joined with two line feeds
RECURSIVE StatedJoin(_, _, _)
StatedJoin(parts, i, first) ==
    IF i > Len(parts) THEN ""
    ELSE IF keepsUntrimmed(parts[i])
    THEN (IF first THEN "" ELSE "\n\n") \o parts[i].text.str
         \o StatedJoin(parts, i + 1, FALSE)
    ELSE StatedJoin(parts, i + 1, first)

\* C27: from a system array exactly the parts of kind text whose text does not
\* start with x-anthropic-billing-header or <system-reminder> contribute, in
\* order, joined with "\n\n"; the outbound body has an instructions field
\* exactly when the extracted text is not empty, and none for an absent or
\* empty system.
C27_SystemExtraction ==
    Converted =>
       /\ System.kind = "array" =>
             LET text == StatedJoin(System.parts, 1, TRUE)
             IN CodexBody.instructions = IF text = "" THEN <<>> ELSE <<text>>
       /\ (System.kind = "undefined" \/ System = SystemArray(<<>>)
             \/ System = SystemString("")) => CodexBody.instructions = <<>>


-----------------------------------------------------------------------------
(* C28 *)

\* the positions of the dashes of the model string, counted from 0
DashPositions == { i \in 0..(Len(modelName) - 1) : SubSeq(modelName, i + 1, i + 1) = "-" }

\* the text after the dash at position d, in lower case
SegmentAfter(d) == toLowerCase(SubSeq(modelName, d + 2, Len(modelName)))

\* C28: a model string without a dash, or whose last dash is at position 0, is
\* returned whole with no effort; otherwise, when the lower-cased text after
\* the last dash is low, medium, high or xhigh, the result is the string up to
\* that dash and that effort; otherwise the whole string and no effort.
C28_ModelParsing ==
    parsed # <<>> =>
       LET last == IF DashPositions = {} THEN -1
                   ELSE CHOOSE d \in DashPositions : \A e \in DashPositions : e <= d
       IN IF last <= 0
          THEN parsed[1] = [actualModel |-> modelName, reasoningEffort |-> Undefined]
          ELSE IF SegmentAfter(last) \in {"low", "medium", "high", "xhigh"}
          THEN parsed[1] = [actualModel |-> SubSeq(modelName, 1, last),
                            reasoningEffort |-> SegmentAfter(last)]
          ELSE parsed[1] = [actualModel |-> modelName, reasoningEffort |-> Undefined]

\* a name with several dashes and an effort in mixed case has been parsed
C28_Witness ==
    /\ modelName = "gpt-5.2-codex-XHigh"
    /\ parsed # <<>>
    /\ parsed[1].actualModel = "gpt-5.2-codex"
    /\ parsed[1].reasoningEffort = "xhigh"


-----------------------------------------------------------------------------
(* C22 *)

\* C22: the collector holds the response of the last response.completed seen,
\* or nothing when none was seen; when the upstream stream has ended or failed
\* without one, the non-stream client has HTTP 502 with an api_error and no
\* usage record, and the stream client's response is ended with neither
\* message_delta nor message_stop and no usage record.
C22_NoCompletion ==
    /\ twin.codexResponse =
          IF Completions = {} THEN <<>>
          ELSE <<fed[CHOOSE k \in Completions : \A l \in Completions : l <= k].response>>
    /\ (phase \in {"done", "failed"} /\ Completions = {}) =>
          /\ twin.res.status = 502
          /\ twin.res.body = <<[type |-> "api_error"]>>
          /\ twin.usageSink = <<>>
          /\ res.ended
          /\ \A i \in 1..Len(Written) :
                Written[i].event \notin {"message_delta", "message_stop"}
          /\ usageSink = <<>>

\* a stream that had started a message ended without response.completed
C22_Witness ==
    /\ phase = "done"
    /\ Len(fed) = 2
    /\ Completions = {}
    /\ Written # <<>>
    /\ res.ended
    /\ twin.res.status = 502

-----------------------------------------------------------------------------
(* C26: the body posted upstream *)

\* the selected account is the OAuth-style one
OAuthStyle == bridge.accountType # "openai-responses"

\* C26: every body posted upstream has stream = true, whatever the client's
\* stream flag and whether or not the adapter replaced the body, and has
\* store = false when the selected account is not of type openai-responses
C26_OutboundBody ==
    bridge.outbound # <<>> =>
        LET body == bridge.outbound[1]
        IN /\ "stream" \in DOMAIN body
           /\ body["stream"] = Bool("true")
           /\ OAuthStyle => /\ "store" \in DOMAIN body
                            /\ body["store"] = Bool("false")

\* the part of C26 about stream alone
C26_StreamForced ==
    bridge.outbound # <<>> =>
        /\ "stream" \in DOMAIN bridge.outbound[1]
        /\ bridge.outbound[1]["stream"] = Bool("true")

\* store reaches the upstream whenever the strip list in force does not name it
C26_StoreUnlessStripped ==
    (/\ bridge.outbound # <<>>
     /\ OAuthStyle
     /\ bridge.isCodexCLI \/ bridge.adapterConfig.stripFields.fields = <<>>) =>
        /\ "store" \in DOMAIN bridge.outbound[1]
        /\ bridge.outbound[1]["store"] = Bool("false")

-----------------------------------------------------------------------------
(* C30: clearing the rate limit *)

\* the calls of one scheduler operation made so far
CallsOf(op) == { i \in 1..Len(scheduler) : scheduler[i].op = op }

\* isAccountRateLimited has reported the account as rate limited
ReportedLimited == bridge.reported = <<TRUE>>

\* C30: removeAccountRateLimit has been called exactly once as soon as the
\* scheduler has reported the account of a status 200 or 201 as rate limited,
\* and is never called for another status, for an account not reported as
\* limited or for a request that failed before an upstream status
C30_ClearedOnSuccess ==
    Cardinality(CallsOf("removeAccountRateLimit")) =
        IF upstream # <<>> /\ upstream.status \in {200, 201} /\ ReportedLimited
        THEN 1 ELSE 0

\* a limited account answered 201 and the request ran to its end
C30_Witness ==
    /\ phase = "done"
    /\ upstream # <<>>
    /\ upstream.status = 201
    /\ bridge.rateLimited
    /\ res.ended
    /\ Cardinality(CallsOf("removeAccountRateLimit")) = 1

-----------------------------------------------------------------------------
(* C21: an upstream 401 or 402 *)

\* the upstream answered 401 or 402
Unauthorized == upstream # <<>> /\ upstream.status \in {401, 402}

\* the one SSE event written is an error of this type
OneErrorEvent(type) ==
    /\ Len(res.written) = 1
    /\ res.written[1].event = "error"
    /\ res.written[1].error.type = type

\* the JSON body is an Anthropic error of this type
JsonError(type) ==
    /\ Len(res.body) = 1
    /\ res.body[1].type = "error"
    /\ res.body[1].error.type = type

\* C21: for an upstream 401 or 402 nothing is sent to the client before
\* markAccountUnauthorized has been called, it is called exactly once and no
\* other scheduler operation is, and whether or not that call fails the client
\* receives an authentication_error: in stream mode one SSE error event and the
\* end, otherwise a JSON error with the upstream status
C21_UnauthorizedSurfaced ==
    Unauthorized =>
        /\ phase \in {"received", "drain401"} =>
              /\ scheduler = <<>>
              /\ res = FreshRes
        /\ phase = "marked401" => res = FreshRes
        /\ phase \in {"marked401", "done"} =>
              /\ Len(scheduler) = 1
              /\ scheduler[1].op = "markAccountUnauthorized"
        /\ phase = "done" =>
              /\ res.ended
              /\ IF isStream
                 THEN /\ OneErrorEvent("authentication_error")
                      /\ res.status = 0
                      /\ res.body = <<>>
                 ELSE /\ JsonError("authentication_error")
                      /\ res.status = upstream.status
                      /\ res.written = <<>>

\* a 402 in stream mode whose scheduler call failed, answered to the client
C21_Witness ==
    /\ phase = "done"
    /\ Unauthorized
    /\ upstream.status = 402
    /\ isStream
    /\ scheduler[1].threw
    /\ OneErrorEvent("authentication_error")
    /\ res.ended

-----------------------------------------------------------------------------
(* C29: another upstream error status in stream mode *)

\* the upstream answered a status that is neither a success nor one with a
\* handler of its own
OtherStatus ==
    upstream # <<>> /\ upstream.status \notin {200, 201, 429, 401, 402}

\* C29: in stream mode an upstream status other than 200, 201, 429, 401 and
\* 402 writes nothing until its body is drained and then exactly one SSE error
\* event followed by the end; the converter is fed no event and emits none,
\* and no usage is recorded
C29_StreamErrorStatus ==
    (OtherStatus /\ isStream) =>
        /\ fed = <<>>
        /\ usageSink = <<>>
        /\ phase \notin {"open", "drainJson"}
        /\ phase \in {"received", "drainStream"} => res = FreshRes
        /\ ~converter.messageStartSent
        /\ phase = "done" =>
              /\ OneErrorEvent("api_error")
              /\ res.written[1].error.message =
                    "Upstream Codex API error (" \o ToString(upstream.status) \o ")"
              /\ res.ended
              /\ res.status = 0
              /\ res.body = <<>>
              /\ scheduler = <<>>

\* a 500 in stream mode whose body was drained in part and answered
C29_Witness ==
    /\ phase = "done"
    /\ OtherStatus
    /\ isStream
    /\ chunks # <<>>
    /\ OneErrorEvent("api_error")
    /\ res.ended

-----------------------------------------------------------------------------
(* C25: a request cancelled by the client *)

\* the upstream call failed because the client's close aborted it, and the
\* handler has returned
Cancelled ==
    /\ phase = "done"
    /\ upstream = <<>>
    /\ bridge.aborted
    /\ bridge.thrown = <<CanceledError>>

\* status 499 with an empty body
Answered499 ==
    /\ res.status = 499
    /\ res.ended
    /\ res.body = <<>>
    /\ res.written = <<>>

\* nothing marked, nothing recorded
NothingCharged == scheduler = <<>> /\ usageSink = <<>>

\* C25 as stated: a cancelled request is answered 499 with an empty body when
\* the response headers have not been sent and is otherwise written nothing
\* more; it marks the account neither unauthorized nor rate limited and
\* records no usage
C25_AsStated ==
    Cancelled =>
        /\ IF ~bridge.flushed THEN Answered499 ELSE res = FreshRes
        /\ NothingCharged

\* C25: a cancelled request is answered 499 with an empty body when the
\* response headers have not been sent and the response is not destroyed, and
\* is otherwise written nothing; it marks the account neither unauthorized nor
\* rate limited and records no usage
C25_Cancelled ==
    Cancelled =>
        /\ IF ~bridge.flushed /\ ~bridge.resDestroyed
           THEN Answered499 ELSE res = FreshRes
        /\ NothingCharged

\* the client closed while the upstream call was pending, the response was
\* still usable and the handler answered 499
C25_Witness ==
    /\ Cancelled
    /\ bridge.client = "closed"
    /\ ~bridge.resDestroyed
    /\ Answered499

-----------------------------------------------------------------------------
(* C23: the listeners on the client request *)

\* the handler has returned
Finished == phase = "done"

\* C23: when the handler has returned, by normal completion, upstream error or
\* cancellation, no listener it registered on the client request for 'close'
\* or 'aborted' is still attached
C23_ListenersRemoved == Finished => bridge.listeners = {}

\* the close listener of the orchestrator is removed once axios.post resolved
C23_RemovedAfterPost ==
    upstream # <<>> => "close:onClientClose" \notin bridge.listeners

-----------------------------------------------------------------------------
(* C24: the client disconnects *)

\* the client's socket closed after the upstream request was issued and before
\* the handler returned
ClientGone ==
    /\ bridge.client = "closed"
    /\ bridge.closedAt \notin {"start", "selecting", "done"}

\* C24: once the client's socket has closed between the issue of the upstream
\* request and the return of the handler, the upstream request is aborted, the
\* upstream readable, if there is one, is destroyed, and no further event is
\* written to the client
C24_CancelOnClose ==
    /\ [](ClientGone => /\ bridge.aborted
                        /\ upstream # <<>> => bridge.upstreamDestroyed)
    /\ [][ClientGone => res'.written = res.written]_vars

\* a close while axios.post is pending aborts the upstream request
C24_AbortWhilePosting == (ClientGone /\ bridge.closedAt = "posting") => bridge.aborted

-----------------------------------------------------------------------------
(* C34: the two versions of the adapter *)

\* one call of the first version on every body, client kind and config
NextVersions == Adapt

SpecVersions == InitAdapter /\ [][NextVersions]_vars

\* the heap as it was at the first call
HeapAtCall == IF inputBefore = <<>> THEN <<>> ELSE <<FirstInput.fields>>

\* what the vendored copy returns for the options of the first call
VendoredResult ==
    adaptCodexRequestBodyVendored(HeapAtCall, adaptArgs.body, adaptArgs.isCodexCLI,
                                  adaptArgs.adapterConfig,
                                  adaptArgs.defaultInstructionsText)

\* the properties of a returned body, none for a body that is null
ReturnedFields(h, ref) == IF ref = 0 THEN <<>> ELSE h[ref]

\* the first call is in the case where the versions part: mode none, the scope
\* allowing instructions, a non-blank server text, and client instructions
\* that are blank or absent
VersionsPart ==
    /\ NoneCaseOf(Settings)
    /\ ~isNonEmptyString(Read(FirstInput.fields, "instructions"))

\* C34: the two versions return the same body, applied flag and changes for
\* every body, client kind and config, except in mode none with the scope
\* allowing instructions, a non-blank server text and blank or absent client
\* instructions, where the first sets the server text with the fallback change
\* and the vendored copy does nothing to instructions and records no change
C34_VersionsAgree ==
    adaptPhase = "returned" =>
        LET v == VendoredResult
            same == /\ v.body = firstResult[1].body
                    /\ v.applied = firstResult[1].applied
                    /\ v.changes = firstResult[1].changes
                    /\ ReturnedFields(v.heap, v.body) =
                          ReturnedFields(heap, firstResult[1].body)
        IN IF VersionsPart
           THEN /\ NoneFallback(Settings)
                /\ v.changes.instructions = NoInstructionChange
                /\ v.changes.strippedFields = firstResult[1].changes.strippedFields
                /\ v.applied = (Len(v.changes.strippedFields) > 0)
                /\ v.heap[v.body] =
                      [f \in DOMAIN FirstInput.fields \ Listed(v.changes.strippedFields)
                          |-> FirstInput.fields[f]]
           ELSE same

\* a call in mode none with blank client instructions, where the versions part
C34_Witness ==
    /\ adaptPhase = "returned"
    /\ VersionsPart
    /\ Read(FirstInput.fields, "instructions") = Str(" ")
    /\ Read(FirstOutput, "instructions") = Str("S")
    /\ ~VendoredResult.applied

\* a prepend call with client instructions, where the versions agree
C34_WitnessAgree ==
    /\ adaptPhase = "returned"
    /\ ~VersionsPart
    /\ inputBefore # <<>>
    /\ firstResult[1].changes.instructions =
          [InstructionChange("prepend") EXCEPT !.alreadyPresent = "false"]
    /\ VendoredResult.changes = firstResult[1].changes

-----------------------------------------------------------------------------
(* C32: the block index of the streaming converter *)

\* the content_block_stop events written so far, in order
StopPositions == Positions("content_block_stop")

\* the block index is the number of stops written, and the k-th stop carries
\* the index k - 1: the index starts at 0 and moves by one at each stop only
IndexCountsStops ==
    /\ converter.currentBlockIndex = Cardinality(StopPositions)
    /\ \A k \in StopPositions :
          Written[k].index = Cardinality({ j \in StopPositions : j < k })

\* the delta at position k belongs to a block started and not yet stopped
InOpenBlock(k) ==
    /\ \E s \in Starts(Written[k].index) : s < k
    /\ \A t \in Stops(Written[k].index) : t > k

\* C32: the block index starts at 0, never decreases and increases by exactly
\* one at each content_block_stop written and at no other time, and every
\* content_block_delta written carries the index of a block that has been
\* started and not yet stopped
C32_BlockIndex ==
    /\ isStream => IndexCountsStops
    /\ \A k \in Positions("content_block_delta") : InOpenBlock(k)

\* the part of C32 about the index alone, as a property of every step
C32_IndexSteps ==
    [][isStream =>
         /\ converter'.currentBlockIndex - converter.currentBlockIndex
               = Cardinality({ k \in 1..Len(res'.written) :
                                 res'.written[k].event = "content_block_stop" })
                 - Cardinality(StopPositions)
         /\ converter'.currentBlockIndex >= converter.currentBlockIndex]_vars

\* the index alone, as a property of every state
C32_IndexCounts == isStream => IndexCountsStops

-----------------------------------------------------------------------------
(* C33: the call_id of a tool_result *)

\* the assistant tool_use blocks with client id `id` before block j
EarlierToolUses(j, id) == { i \in 1..(j - 1) : IsToolUse(i, id) }

\* the last of a non-empty set of positions
LastOf(positions) == CHOOSE i \in positions : \A k \in positions : k <= i

\* the type and role of the item a block is turned into
ItemKind(m) ==
    CASE m.role = "user" /\ m.block.type = "text" -> <<Undefined, "user">>
      [] m.role = "user" /\ m.block.type = "tool_result" ->
            <<"function_call_output", Undefined>>
      [] m.role = "assistant" /\ m.block.type = "text" -> <<"message", "assistant">>
      [] OTHER -> <<"function_call", Undefined>>

\* C33: the call_id of a user tool_result is the call_id minted for the most
\* recent earlier assistant tool_use with the same client id, and the raw
\* tool_use_id when no earlier assistant tool_use has that id, a later one
\* notwithstanding; thinking blocks produce no input item and the items are in
\* the order of their source blocks
C33_ToolResultCallId ==
    Converted =>
        /\ Len(Items) = ItemOf(Len(Msgs))
        /\ \A j \in 1..Len(Msgs) :
              /\ Msgs[j].block.type = "thinking" => ~Produces(Msgs[j])
              /\ Produces(Msgs[j]) =>
                    <<Items[ItemOf(j)].type, Items[ItemOf(j)].role>> = ItemKind(Msgs[j])
              /\ Msgs[j].role = "user" /\ Msgs[j].block.type = "tool_result" =>
                    LET id == Msgs[j].block.tool_use_id
                        earlier == EarlierToolUses(j, id)
                    IN Items[ItemOf(j)].call_id =
                          IF earlier = {} THEN id
                          ELSE Items[ItemOf(LastOf(earlier))].call_id

\* a tool_result after two tool_use blocks of its id carries the call_id of
\* the second
C33_Witness ==
    /\ Converted
    /\ Msgs = <<ToolUse("toolu_A"), ToolUse("toolu_A"), ToolResult("toolu_A")>>
    /\ Items[2].call_id = CallId(1)
    /\ Items[3].call_id = CallId(1)
    /\ Items[1].call_id = CallId(0)

\* a tool_result whose tool_use comes only in a later turn keeps its raw id
C33_WitnessLater ==
    /\ Converted
    /\ Msgs = <<Thinking, ToolResult("toolu_A"), ToolUse("toolu_A")>>
    /\ Len(Items) = 2
    /\ Items[1].call_id = "toolu_A"
    /\ Items[2].call_id = CallId(0)

-----------------------------------------------------------------------------
(* C35: the brackets of the Messages stream *)

\* C35: message_delta and message_stop are each written at most once, both
\* after message_start, and nothing is written after message_stop
C35_Bracketed ==
    isStream =>
        /\ Cardinality(Positions("message_delta")) <= 1
        /\ Cardinality(Positions("message_stop")) <= 1
        /\ \A k \in Positions("message_delta") \cup Positions("message_stop") :
              \E m \in Positions("message_start") : m < k
        /\ \A k \in Positions("message_stop") : k = Len(Written)

\* what holds of the brackets: one response.completed writes message_delta
\* and, right after it, message_stop
C35_DeltaThenStop ==
    isStream =>
        /\ \A k \in Positions("message_delta") :
              k < Len(Written) /\ Written[k + 1].event = "message_stop"
        /\ \A k \in Positions("message_stop") :
              k > 1 /\ Written[k - 1].event = "message_delta"
        /\ Cardinality(Positions("message_start")) <= 1

-----------------------------------------------------------------------------
(* C36: recording usage *)

\* the calls of recordUsage made for the request
Recorded == usageSink

\* the request ran the success path: a status 200 or 201 whose stream was read
\* to its end or gave a response.completed to the collector
SuccessPath ==
    /\ upstream # <<>>
    /\ upstream.status \in {200, 201}
    /\ IF isStream THEN phase \in {"recording", "done"} ELSE codexResponse # <<>>

\* recordUsage is called at most once, on the success path only and with a
\* positive net input or output
RecordedOnSuccess ==
    /\ Len(Recorded) <= 1
    /\ Recorded # <<>> =>
          /\ SuccessPath
          /\ Recorded[1].inputTokens > 0 \/ Recorded[1].outputTokens > 0

\* C36: recordUsage is called at most once per request, on the success path
\* only and only with a positive net input or output; it is not called once
\* the upstream stream has failed or the client has closed the connection
C36_UsageOnce ==
    /\ []RecordedOnSuccess
    /\ [][usageSink' # usageSink => ~bridge'.upstreamErrored /\ ~ClientGone]_vars

\* what holds of C36: at most one call, on the success path, with positive
\* tokens, and none once the converter stream has failed or a close has
\* reached a listener
C36_UsageWhereCancelled ==
    /\ []RecordedOnSuccess
    /\ [][usageSink' # usageSink =>
             /\ isStream => ~bridge'.upstreamErrored
             /\ ~bridge.aborted]_vars

-----------------------------------------------------------------------------
(* C31: errors at the boundary of the orchestrator *)

\* an error was thrown inside the handler's try
Thrown == bridge.thrown # <<>>

\* the status the catch block derives from the error
ThrownStatus == IF bridge.thrown[1].status = <<>> THEN 500 ELSE bridge.thrown[1].status[1]

\* the response was destroyed when the handler returned
GoneAtReturn == Destroyed /\ bridge.closedAt # "done"

\* the client has a structured JSON error with the error's status
StructuredJsonError ==
    /\ res.status = ThrownStatus
    /\ Len(res.body) = 1
    /\ res.body[1].type = "error"
    /\ res.written = <<>>
    /\ res.ended

\* the stream was ended right after an SSE error event
FinalErrorEvent ==
    /\ res.written # <<>>
    /\ res.written[Len(res.written)].event = "error"
    /\ res.ended

\* the converter stream failed after the headers were written
StreamFailed == bridge.upstreamErrored /\ isStream

\* the claim as its words have it: for any error thrown while handling a
\* request the client receives a structured JSON error if the headers have not
\* been written; if they have, the stream is ended with a final SSE error event
C31_AsStated ==
    Finished =>
        /\ Thrown => IF ~bridge.flushed THEN StructuredJsonError ELSE FinalErrorEvent
        /\ StreamFailed => FinalErrorEvent

\* C31: an error thrown while handling a request gives the client a structured
\* JSON error if the headers have not been written, unless the client's close
\* aborted the request; if the headers have been written, the stream is ended
\* with a final SSE error event where that is possible, the response being
\* neither destroyed nor ended.
C31_AnsweredUnlessCancelled ==
    Finished =>
        /\ Thrown /\ ~bridge.aborted =>
              IF ~bridge.flushed THEN StructuredJsonError ELSE FinalErrorEvent
        /\ StreamFailed /\ ~GoneAtReturn => FinalErrorEvent

\* what the handler does with an error: one named AbortError or coded
\* ERR_CANCELED is answered 499 with an empty body, or with nothing when the
\* response is destroyed; any other gets a structured JSON error with its
\* status, 500 by default, the headers being unwritten; an upstream stream
\* error after the headers were written ends the stream with a final SSE error
\* event unless the response is destroyed, in which case nothing is written
C31_ErrorPropagation ==
    Finished =>
        /\ Thrown =>
              /\ ~bridge.flushed
              /\ IF isAbort(bridge.thrown[1])
                 THEN IF GoneAtReturn THEN res = FreshRes ELSE Answered499
                 ELSE StructuredJsonError
        /\ StreamFailed =>
              /\ bridge.flushed
              /\ IF GoneAtReturn
                 THEN ~res.ended /\ Positions("error") = {}
                 ELSE FinalErrorEvent

\* a rejection of the scheduler with status 401 or 402, the account selected:
\* the catch block called markAccountUnauthorized with the error's message and
\* answered after the call
C31_MarkedInCatch ==
    (/\ Finished
     /\ Thrown
     /\ ~isAbort(bridge.thrown[1])
     /\ ThrownStatus \in {401, 402}
     /\ bridge.accountId) =>
        /\ scheduler # <<>>
        /\ scheduler[Len(scheduler)].op = "markAccountUnauthorized"
        /\ scheduler[Len(scheduler)].reason = "Codex bridge error: failed"
        /\ StructuredJsonError

\* the mark of the catch block was rejected and the client answered 401
C31_WitnessMarked ==
    /\ Finished
    /\ Thrown
    /\ ThrownStatus = 401
    /\ scheduler # <<>>
    /\ scheduler[Len(scheduler)].op = "markAccountUnauthorized"
    /\ scheduler[Len(scheduler)].threw
    /\ StructuredJsonError

\* a service rejected with an error coded ERR_CANCELED, the client connected,
\* and the handler answered 499 with no body
C31_WitnessCoded ==
    /\ Finished
    /\ Thrown
    /\ bridge.thrown[1].code = "ERR_CANCELED"
    /\ bridge.client = "connected"
    /\ ~bridge.aborted
    /\ Answered499

\* the converter stream failed after two events and the client, still
\* connected, got the final error event
C31_Witness ==
    /\ Finished
    /\ StreamFailed
    /\ bridge.client = "connected"
    /\ Len(fed) = 2
    /\ Len(res.written) > 1
    /\ FinalErrorEvent

\* the scheduler call of the 429 handler failed and the client got a JSON
\* error with status 500
C31_WitnessThrown ==
    /\ Finished
    /\ Thrown
    /\ upstream # <<>>
    /\ upstream.status = 429
    /\ StructuredJsonError
    /\ res.status = 500

-----------------------------------------------------------------------------
(* C37: the client response is finalized once *)

\* C37: at most one terminal action, res.end() or a JSON body, is performed on
\* the client response, and once the response is ended no event or body is
\* written to it and it is not ended again
C37_FinalizedOnce ==
    /\ [](res.finals <= 1 /\ (res.ended <=> res.finals = 1))
    /\ [][res.ended => res' = res]_vars

\* a non-stream request whose client closed during the drain of a 500 has been
\* answered by its one JSON body
C37_Witness ==
    /\ Finished
    /\ OtherStatus
    /\ ~isStream
    /\ bridge.client = "closed"
    /\ res.finals = 1
    /\ Len(res.body) = 1

-----------------------------------------------------------------------------
(* C38: max_tokens through the translator and the adapter *)

\* config.openai.codexAdapter is left at its defaults
DefaultAdapter == bridge.adapterConfig = NoAdapterConfig

\* the posted body carries the client's max_tokens as max_output_tokens
ForwardsMaxTokens(body) ==
    IF request.body.max_tokens = <<>> THEN "max_output_tokens" \notin DOMAIN body
    ELSE /\ "max_output_tokens" \in DOMAIN body
         /\ body["max_output_tokens"] = Num(ToString(request.body.max_tokens[1]))

\* C38 as stated: the body posted for a client other than the Codex CLI under
\* the default adapter configuration has no max_output_tokens, and the body
\* posted for the Codex CLI has max_output_tokens equal to the client's
\* max_tokens
C38_AsStated ==
    bridge.outbound # <<>> =>
        LET body == bridge.outbound[1]
        IN /\ (~bridge.isCodexCLI /\ DefaultAdapter) =>
                  "max_output_tokens" \notin DOMAIN body
           /\ bridge.isCodexCLI => ForwardsMaxTokens(body)

\* C38: the body posted for a client other than the Codex CLI under the
\* default adapter configuration has no max_output_tokens, whatever max_tokens
\* the client sent; the body posted for the Codex CLI has max_output_tokens
\* equal to the client's max_tokens when that is not 0, and has no
\* max_output_tokens when it is 0 or absent
C38_MaxTokens ==
    bridge.outbound # <<>> =>
        LET body == bridge.outbound[1]
        IN /\ (~bridge.isCodexCLI /\ DefaultAdapter) =>
                  "max_output_tokens" \notin DOMAIN body
           /\ bridge.isCodexCLI =>
                  IF request.body.max_tokens \in {<<>>, <<0>>}
                  THEN "max_output_tokens" \notin DOMAIN body
                  ELSE ForwardsMaxTokens(body)

\* a body was posted without max_output_tokens for a client other than the
\* Codex CLI that sent max_tokens = 1, under the default configuration
C38_Witness ==
    /\ bridge.outbound # <<>>
    /\ ~bridge.isCodexCLI
    /\ DefaultAdapter
    /\ request.body.max_tokens = <<1>>
    /\ "max_output_tokens" \notin DOMAIN bridge.outbound[1]

\* a body was posted for the Codex CLI with the client's max_tokens = 1
C38_WitnessCLI ==
    /\ bridge.outbound # <<>>
    /\ bridge.isCodexCLI
    /\ request.body.max_tokens = <<1>>
    /\ bridge.outbound[1]["max_output_tokens"] = Num("1")

-----------------------------------------------------------------------------
(* C39: the handler returns *)

\* what the handler's own scheduling guarantees: account selection settles,
\* axios.post settles (timeout, or the abort once it was signalled), the code
\* between two awaits runs, the scheduler calls settle, and the timer of a
\* drain, setTimeout(resolve, 5000), fires. The end and the error of the
\* upstream stream and the client's close are the environment's to give.
HandlerFairness ==
    /\ WF_vars(Translate)
    /\ WF_vars(BeginFails \/ Begin)
    /\ WF_vars(PostReturns \/ PostFails \/ PostAborted)
    /\ WF_vars(Classify)
    /\ WF_vars(LimitChecked)
    /\ WF_vars(LimitCleared)
    /\ WF_vars(DrainTimesOut)
    /\ WF_vars(UnauthorizedAnswers)
    /\ WF_vars(RateLimitAnswers)
    /\ WF_vars(CatchAnswers)
    /\ WF_vars(UsageSettles)

SpecBridgeLive == InitBridge /\ [][NextBridge]_vars /\ HandlerFairness

\* the upstream stream of a success status ends or errors at last
UpstreamSettles ==
    /\ WF_vars(StreamError \/ StreamEnd(BridgeEvents, MaxFewEvents))
    /\ WF_vars(CollectError \/ CollectEnd(BridgeEvents, MaxFewEvents))

SpecBridgeSettles == SpecBridgeLive /\ UpstreamSettles

\* C39: the handler returns at last in every path, provided that the upstream
\* stream ends or errors (which returns it in the same step), or the client
\* disconnects, or, in a drain, the timer fires (which the handler's
\* scheduling gives)
C39_Returns == <>ClientGone => <>Finished

\* the part of C39 about the drains: a drain of an error body is left at last,
\* whatever the upstream and the client do
C39_DrainsReturn == Draining ~> ~Draining

\* the part of C39 about the upstream: where the upstream stream ends or
\* errors at last, the handler returns (under SpecBridgeSettles)
C39_ReturnsWhenUpstreamSettles == <>Finished

\* a non-stream request is collecting a stream that has not ended, and its
\* client has disconnected
C39_CollectingForNobody ==
    /\ phase = "open"
    /\ ~isStream
    /\ ClientGone

\* a stream request whose client disconnected before the cleanup listener was
\* attached is converting a stream that has not ended
C39_StreamingForNobody ==
    /\ phase = "open"
    /\ isStream
    /\ ClientGone

=============================================================================
